---- MODULE Spec2Model ----
(***************************************************************************)
(* A model of the concurrency and resumability machinery of tiger-slack:   *)
(*   - the import worker pool and its token-budget batcher                 *)
(*     (src/ingest/scripts/import.py),                                     *)
(*   - the two-phase searchable_content backfill                           *)
(*     (src/ingest/scripts/backfill_searchable_content.py),                *)
(*   - the advisory-lock guarded migration runner                          *)
(*     (src/ingest/tiger_slack/migrations/runner.py and                    *)
(*      src/tiger_slack/migrations/runner.py),                             *)
(*   - the helpers of src/ingest/tiger_slack/utils.py and the file-order   *)
(*     check of the runner, as pure functions applied to bounded inputs,   *)
(*   - the ingest service: its event handler, its shutdown handler, its    *)
(*     user job under the advisory lock and its own import worker          *)
(*     (src/ingest/tiger_slack/events.py, main.py, jobs.py, import.py).    *)
(* Each part has its own specification over its own variables; the other   *)
(* parts' variables stay at their initial values.                          *)
(***************************************************************************)
EXTENDS Integers, Sequences, FiniteSets, TLC

VARIABLES
    \* ---- import worker pool (src/ingest/scripts/import.py) ----
    file_queue,             \* asyncio.Queue of load_messages: file numbers, then None sentinels
    yielded,                \* per file: the token costs of the messages it yielded after filtering
    pc,                     \* per worker: "get" (in file_queue.get), "flush" (in the flush), "done"
    item,                   \* per worker: the queue item it last dequeued
    message_buffer,         \* per worker: deque of messages still to be batched
    current_message_batch,  \* per worker: the open batch
    token_count,            \* per worker: running token count of the open batch
    flushed,                \* per worker: the batches insert_messages committed, in order
    \* ---- backfill (src/ingest/scripts/backfill_searchable_content.py) ----
    table,                  \* slack.message_vanilla, committed state, rows in (channel_id, ts) order
    claimed,                \* per transaction: the rows it holds locked (FOR UPDATE)
    ppc,                    \* per process: where run_backfill is
    wpc,                    \* per process and slow-path worker: where the worker is
    crashes,                \* per process: how often it was killed and the script run again
    \* ---- migration runner (migrations/runner.py, both packages) ----
    runner,                 \* "ingest" or "agent": the package whose migrate_db the processes run
    target_version,         \* per process: the version its package carries
    paths,                  \* the sorted file numbers of the incremental and idempotent directories
    start_version,          \* slack.version when the processes start
    db_version,             \* slack.version, committed
    lock_holder,            \* the process whose transaction holds the advisory lock, or 0
    mpc,                    \* per process: where migrate_db is
    attempts,               \* per process: failed lock attempts of the running retry loop
    script_k,               \* per process: index of the next script in the directory being run
    tx,                     \* per process: statements executed in its open transaction
    committed,              \* per process: statements its transactions committed
    raised_at,              \* per process: where its run raised, or "none"
    \* ---- application startup (scripts/import.py run_import, tiger_slack/main.py main) ----
    app,                    \* "run_import" or "main": what the application process runs
    spc,                    \* where the application process is in it
    \* ---- bulk message write (src/db/tiger_slack/import.py) ----
    message,                \* slack.message: the row text by key <<ts, channel_id>>
    batches,                \* the collection of record batches (files) being delivered
    deliveries,             \* per batch: how often load_messages has written it
    \* ---- batched table copy (src/ingest/scripts/migrate_messages.py) ----
    source_rows,            \* number of rows of slack.message, numbered in (channel_id, ts) order
    dest,                   \* the source rows committed to the destination table
    batch_size,             \* --batch-size of the running process
    current_offset,         \* current_offset of the running process
    total_count,            \* total_count of the running process
    job_state,              \* state dict of the running process: its "status"
    job_file,               \* the job file: the persisted state, or "truncated"
    jpc,                    \* where run_migration is
    restarts,               \* how often the script was started again with --resume
    \* ---- helpers of src/ingest/tiger_slack/utils.py ----
    messages,               \* add_message_embeddings: the messages, each with content and embedding
    embedding_requests,     \* the requests built by the first loop
    index_map_per_request,  \* per request (numbered from 0): the positions of its messages
    embedder_calls,         \* the requests passed to embedder.embed_documents, in order
    epc,                    \* where add_message_embeddings is
    \* ---- pure functions (utils.py, migrations/runner.py) ----
    fn,                     \* the function that is called
    arg,                    \* its argument
    result,                 \* what the call returned or raised, Pending before it
    \* ---- ingest service (tiger_slack/main.py, events.py, jobs.py) ----
    hpc,                    \* per event: where its event_handler call is
    acked,                  \* the events whose ack() has been awaited
    routed,                 \* per event: how event_router ended ("returned", "raised"), or "none"
    insert_event_calls,     \* per event: the error argument of each insert_event call
    exited,                 \* the process has left through shutdown_handler
    autocommit,             \* whether the pool's connections are in autocommit mode
    job_lock,               \* the process whose transaction holds USERS_LOCK_KEY, or 0
    lpc,                    \* per process: where load_users is
    cursor                  \* per process: the page of users_list it asks for next

importVars == <<file_queue, yielded, pc, item, message_buffer,
                current_message_batch, token_count, flushed>>

backfillVars == <<table, claimed, ppc, wpc, crashes>>

migrateVars == <<runner, target_version, paths, start_version, db_version,
                 lock_holder, mpc, attempts, script_k, tx, committed, raised_at>>

startupVars == <<app, spc>>

storeVars == <<message, batches, deliveries>>

jobVars == <<source_rows, dest, batch_size, current_offset, total_count,
             job_state, job_file, jpc, restarts>>

embedVars == <<messages, embedding_requests, index_map_per_request, embedder_calls, epc>>

callVars == <<fn, arg, result>>

utilsVars == <<embedVars, callVars>>

eventVars == <<hpc, acked, routed, insert_event_calls, exited>>

lockVars == <<autocommit, job_lock, lpc, cursor>>

serviceVars == <<eventVars, lockVars>>

otherThanEmbed == <<importVars, backfillVars, migrateVars, startupVars, storeVars, jobVars, serviceVars, callVars>>

otherThanCalls == <<importVars, backfillVars, migrateVars, startupVars, storeVars, jobVars, serviceVars, embedVars>>

vars == <<importVars, backfillVars, migrateVars, startupVars, storeVars, jobVars, utilsVars, serviceVars>>

otherThanImport == <<backfillVars, migrateVars, startupVars, storeVars, jobVars, utilsVars, serviceVars>>

otherThanBackfill == <<importVars, migrateVars, startupVars, storeVars, jobVars, utilsVars, serviceVars>>

otherThanMigrate == <<importVars, backfillVars, startupVars, storeVars, jobVars, utilsVars, serviceVars>>

otherThanStore == <<importVars, backfillVars, migrateVars, startupVars, jobVars, utilsVars, serviceVars>>

otherThanJob == <<importVars, backfillVars, migrateVars, startupVars, storeVars, utilsVars, serviceVars>>

(***************************************************************************)
(* Generic helpers.                                                        *)
(***************************************************************************)
RECURSIVE SumSeq(_)
SumSeq(s) == IF s = <<>> THEN 0 ELSE Head(s) + SumSeq(Tail(s))

RECURSIVE Flatten(_)
Flatten(ss) == IF ss = <<>> THEN <<>> ELSE Head(ss) \o Flatten(Tail(ss))

Range(s) == {s[i] : i \in DOMAIN s}

(***************************************************************************)
(* Import worker pool: constants and bounds.                               *)
(***************************************************************************)
MAX_TOKENS_PER_EMBEDDING_REQUEST == 300000

\* DESIRED_BATCH_SIZE is 500 in the source.  It is scaled down, as a bound of
\* the model, so that the count trigger of the flush condition fires on a
\* file of a few messages (ManySmall below), while a batch of two messages
\* stays below it.
DESIRED_BATCH_SIZE == 3

NumWorkers == 2     \* W, num_workers of load_messages
MaxFiles == 2       \* J ranges over 0..MaxFiles
MaxSpin == 1        \* cap on the empty flushes one worker is followed through

\* Queue items: a file is <<n>>, the sentinel None is the empty tuple.
None == <<>>

File(n) == <<n>>

Workers == 1..NumWorkers

\* What one file can yield after filtering: the token costs of its messages
\* (0: searchable_content is None).  The costs sit around the budget: 299999
\* fills a batch alone, 300000 can never be admitted.  ManySmall is one more
\* message than the count trigger of the flush condition needs.
ManySmall == [k \in 1..(DESIRED_BATCH_SIZE + 1) |-> IF k = 1 THEN 0 ELSE 1]

FileContentsBelowBudget == { <<>>, <<299999, 1>>, ManySmall }

FileContents == FileContentsBelowBudget \cup { <<300000>> }

Msg(f, k, c) == [file |-> f, idx |-> k, tokens |-> c]

\* deque(filtered_messages) of file f
Messages(f, content) == [k \in 1..Len(content) |-> Msg(f, k, content[k])]

Tokens(batch) == SumSeq([k \in 1..Len(batch) |-> batch[k].tokens])

(***************************************************************************)
(* load_messages: every file, then one sentinel per worker.                *)
(***************************************************************************)
Sentinels_OneShort == [i \in 1..(NumWorkers - 1) |-> None]

Sentinels == [i \in 1..NumWorkers |-> None]

InitialQueue(j) == [i \in 1..j |-> File(i)] \o Sentinels

(***************************************************************************)
(* One iteration of the inner while loop of process_file_worker, up to     *)
(* the point where it either awaits the flush, breaks, or goes round.      *)
(***************************************************************************)
CanEncode_AtMost(tc, t) == (tc + t) <= MAX_TOKENS_PER_EMBEDDING_REQUEST

CanEncode(tc, t) == (tc + t) < MAX_TOKENS_PER_EMBEDDING_REQUEST

\* The iteration with the count trigger firing on every non-empty batch
\* (len(current_message_batch) >= 1).
LoopBodyWith_FlushEach(buf, bat, tc, it, pushBack) ==
    LET pops   == buf # <<>>
        m      == Head(buf)
        admit  == pops /\ CanEncode(tc, m.tokens)
        buf2   == IF ~pops THEN buf
                  ELSE IF admit THEN Tail(buf)
                  ELSE IF pushBack THEN buf
                  ELSE Tail(buf)
        bat2   == IF admit THEN Append(bat, m) ELSE bat
        tc2    == IF admit THEN tc + m.tokens ELSE tc
        should_add == ~(pops /\ ~admit)
        outcome == IF \/ Len(bat2) >= 1
                      \/ ~should_add
                      \/ (it = None /\ buf2 = <<>>)
                   THEN "flush"
                   ELSE IF it # None /\ buf2 = <<>> THEN "break"
                   ELSE "continue"
    IN [outcome |-> outcome, buf |-> buf2, bat |-> bat2, tc |-> tc2]

LoopBodyWith(buf, bat, tc, it, pushBack) ==
    LET pops   == buf # <<>>
        m      == Head(buf)
        admit  == pops /\ CanEncode(tc, m.tokens)
        buf2   == IF ~pops THEN buf
                  ELSE IF admit THEN Tail(buf)
                  ELSE IF pushBack THEN buf      \* popleft, then appendleft
                  ELSE Tail(buf)
        bat2   == IF admit THEN Append(bat, m) ELSE bat
        tc2    == IF admit THEN tc + m.tokens ELSE tc
        should_add == ~(pops /\ ~admit)
        outcome == IF \/ Len(bat2) >= DESIRED_BATCH_SIZE
                      \/ ~should_add
                      \/ (it = None /\ buf2 = <<>>)
                   THEN "flush"
                   ELSE IF it # None /\ buf2 = <<>> THEN "break"
                   ELSE "continue"
    IN [outcome |-> outcome, buf |-> buf2, bat |-> bat2, tc |-> tc2]

LoopBody_NoPushBack(buf, bat, tc, it) == LoopBodyWith(buf, bat, tc, it, FALSE)

LoopBody(buf, bat, tc, it) == LoopBodyWith(buf, bat, tc, it, TRUE)

\* The loop runs without suspending until it awaits a flush or leaves the loop.
\* (Each iteration's result is bound as a value before the next one starts.)
RECURSIVE RunLoop(_, _, _, _)
RunLoop(buf, bat, tc, it) ==
    IF buf = <<>> /\ bat = <<>>
    THEN [outcome |-> "exit", buf |-> buf, bat |-> bat, tc |-> tc]
    ELSE CHOOSE r \in { IF s.outcome = "continue" THEN RunLoop(s.buf, s.bat, s.tc, it) ELSE s :
                            s \in {LoopBody(buf, bat, tc, it)} } : TRUE

EmptyFlushes(w) == Cardinality({i \in DOMAIN flushed[w] : flushed[w][i] = <<>>})

(***************************************************************************)
(* Actions of one worker.  A worker is suspended either in                 *)
(* file_queue.get() ("get") or in the flush of its open batch ("flush");   *)
(* between two suspensions the inner loop runs without interruption.       *)
(***************************************************************************)
\* Where the worker is suspended next, r being the state the loop stopped in.
NextPc(r, it) ==
    IF r.outcome = "flush" THEN "flush"
    ELSE IF r.outcome = "break" THEN "get"
    ELSE IF it = None THEN "done" ELSE "get"

\* The worker runs its inner loop on (buf, bat, tc) with queue item it.
Resume(w, buf, bat, tc, it) ==
    \E r \in {RunLoop(buf, bat, tc, it)} :
        /\ message_buffer' = [message_buffer EXCEPT ![w] = r.buf]
        /\ current_message_batch' = [current_message_batch EXCEPT ![w] = r.bat]
        /\ token_count' = [token_count EXCEPT ![w] = r.tc]
        /\ pc' = [pc EXCEPT ![w] = NextPc(r, it)]

\* The same with the new messages put in front of the buffer
\* (new_messages + message_buffer).
GetFile_Prepend(w, contents) ==
    /\ pc[w] = "get"
    /\ file_queue # <<>>
    /\ Head(file_queue) # None
    /\ LET f == Head(file_queue)[1] IN
       \E content \in contents :
          /\ file_queue' = Tail(file_queue)
          /\ item' = [item EXCEPT ![w] = File(f)]
          /\ yielded' = [yielded EXCEPT ![f] = content]
          /\ Resume(w, Messages(f, content) \o message_buffer[w],
                    current_message_batch[w], token_count[w], File(f))
          /\ UNCHANGED flushed
          /\ UNCHANGED otherThanImport

\* item = await file_queue.get(); a file is read, parsed and filtered, and its
\* messages are appended to the buffer.
GetFile(w, contents) ==
    /\ pc[w] = "get"
    /\ file_queue # <<>>
    /\ Head(file_queue) # None
    /\ LET f == Head(file_queue)[1] IN
       \E content \in contents :
          /\ file_queue' = Tail(file_queue)
          /\ item' = [item EXCEPT ![w] = File(f)]
          /\ yielded' = [yielded EXCEPT ![f] = content]
          /\ Resume(w, message_buffer[w] \o Messages(f, content),
                    current_message_batch[w], token_count[w], File(f))
          /\ UNCHANGED flushed
          /\ UNCHANGED otherThanImport

\* The same without the try/except around the read: the exception leaves the
\* worker and the TaskGroup cancels the other workers.
GetFileRaises_Propagates(w) ==
    /\ pc[w] = "get"
    /\ file_queue # <<>>
    /\ Head(file_queue) # None
    /\ file_queue' = Tail(file_queue)
    /\ item' = [item EXCEPT ![w] = Head(file_queue)]
    /\ pc' = [v \in Workers |-> "done"]
    /\ UNCHANGED <<yielded, flushed, message_buffer, current_message_batch, token_count>>
    /\ UNCHANGED otherThanImport

\* The same, but reading, parsing or filtering raises: the exception is logged
\* and the file adds nothing to the buffer.
GetFileRaises(w) ==
    /\ pc[w] = "get"
    /\ file_queue # <<>>
    /\ Head(file_queue) # None
    /\ file_queue' = Tail(file_queue)
    /\ item' = [item EXCEPT ![w] = Head(file_queue)]
    /\ Resume(w, message_buffer[w], current_message_batch[w], token_count[w],
              Head(file_queue))
    /\ UNCHANGED <<yielded, flushed>>
    /\ UNCHANGED otherThanImport

\* item is None: the sentinel.
GetSentinel(w) ==
    /\ pc[w] = "get"
    /\ file_queue # <<>>
    /\ Head(file_queue) = None
    /\ file_queue' = Tail(file_queue)
    /\ item' = [item EXCEPT ![w] = None]
    /\ Resume(w, message_buffer[w], current_message_batch[w], token_count[w], None)
    /\ UNCHANGED <<yielded, flushed>>
    /\ UNCHANGED otherThanImport

\* The flush without `token_count = 0`.
Flush_KeepsTokenCount(w) ==
    /\ pc[w] = "flush"
    /\ current_message_batch[w] = <<>> => EmptyFlushes(w) < MaxSpin
    /\ flushed' = [flushed EXCEPT ![w] = Append(@, current_message_batch[w])]
    /\ Resume(w, message_buffer[w], <<>>, token_count[w], item[w])
    /\ UNCHANGED <<file_queue, yielded, item>>
    /\ UNCHANGED otherThanImport

\* insert_messages commits the open batch; batch and token_count are reset and
\* the loop goes on.
Flush(w) ==
    /\ pc[w] = "flush"
    /\ current_message_batch[w] = <<>> => EmptyFlushes(w) < MaxSpin
    /\ flushed' = [flushed EXCEPT ![w] = Append(@, current_message_batch[w])]
    /\ Resume(w, message_buffer[w], <<>>, 0, item[w])
    /\ UNCHANGED <<file_queue, yielded, item>>
    /\ UNCHANGED otherThanImport

\* The flush raises: "Failed to import messages" is logged, batch and buffer
\* stay as they are, and the worker goes back to file_queue.get().
FlushRaises(w) ==
    /\ pc[w] = "flush"
    /\ pc' = [pc EXCEPT ![w] = "get"]
    /\ UNCHANGED <<file_queue, yielded, item, message_buffer,
                   current_message_batch, token_count, flushed>>
    /\ UNCHANGED otherThanImport

\* The pool before load_messages has built its queue.
IdleImport ==
    /\ file_queue = <<>>
    /\ yielded = <<>>
    /\ pc = [w \in Workers |-> "done"]
    /\ item = [w \in Workers |-> None]
    /\ message_buffer = [w \in Workers |-> <<>>]
    /\ current_message_batch = [w \in Workers |-> <<>>]
    /\ token_count = [w \in Workers |-> 0]
    /\ flushed = [w \in Workers |-> <<>>]

StartImport ==
    /\ \E j \in 0..MaxFiles :
          /\ file_queue = InitialQueue(j)
          /\ yielded = [f \in 1..j |-> <<>>]
    /\ pc = [w \in Workers |-> "get"]
    /\ item = [w \in Workers |-> None]      \* not read before the first get
    /\ message_buffer = [w \in Workers |-> <<>>]
    /\ current_message_batch = [w \in Workers |-> <<>>]
    /\ token_count = [w \in Workers |-> 0]
    /\ flushed = [w \in Workers |-> <<>>]

WorkerReliable(w) ==
    \/ GetFile(w, FileContentsBelowBudget)
    \/ GetFileRaises(w)
    \/ GetSentinel(w)
    \/ Flush(w)


\* The end-to-end batching case: file 1 yields messages costed 299,999, 1 and 1,
\* files 2 and 3 yield nothing.
EndToEndCase == << <<299999, 1, 1>>, <<>>, <<>> >>

\* The pool on the three files of the case.
StartCase ==
    /\ file_queue = InitialQueue(Len(EndToEndCase))
    /\ yielded = [f \in 1..Len(EndToEndCase) |-> <<>>]
    /\ pc = [w \in Workers |-> "get"]
    /\ item = [w \in Workers |-> None]
    /\ message_buffer = [w \in Workers |-> <<>>]
    /\ current_message_batch = [w \in Workers |-> <<>>]
    /\ token_count = [w \in Workers |-> 0]
    /\ flushed = [w \in Workers |-> <<>>]

\* A worker on the files of the case: every read succeeds, a flush may fail
\* and be tried again.
WorkerCase(w) ==
    \/ GetFile(w, {EndToEndCase[Head(file_queue)[1]]})
    \/ GetSentinel(w)
    \/ Flush(w)
    \/ FlushRaises(w)

WorkerStep(w) ==
    \/ GetFile(w, FileContents)
    \/ GetFileRaises(w)
    \/ GetSentinel(w)
    \/ Flush(w)
    \/ FlushRaises(w)

(***************************************************************************)
(* Backfill of searchable_content                                          *)
(* (src/ingest/scripts/backfill_searchable_content.py).                    *)
(***************************************************************************)
NumRows == 2            \* rows of slack.message_vanilla
NumProcs == 2           \* processes running the script at the same time
NumSlowWorkers == 1     \* --workers
ReembedBatchSize == 1   \* --reembed-batch-size
InPlaceBatchSize == 1   \* --in-place-batch-size
MaxCrashes == 1         \* kills of one process

Rows == 1..NumRows
Procs == 1..NumProcs
SlowWorkers == 1..NumSlowWorkers

NULL == "NULL"

\* A transaction is named by its process and worker; worker 0 is the process's
\* own fast-path transaction.
FastTask(p) == <<p, 0>>
SlowTask(p, w) == <<p, w>>
Tasks == {FastTask(p) : p \in Procs} \cup {SlowTask(p, w) : p \in Procs, w \in SlowWorkers}

\* A row: whether attachments holds a non-empty array, its text (NULL or a
\* string) and its searchable_content.
RowKinds == [att : BOOLEAN, text : {NULL, "text"}, searchable_content : {NULL}]

\* WHERE searchable_content IS NULL
Unprocessed(r) == table[r].searchable_content = NULL

\* AND (attachments IS NULL OR jsonb_array_length(attachments) = 0)
FastPredicate(r) == Unprocessed(r) /\ ~table[r].att

\* AND attachments IS NOT NULL AND jsonb_array_length(attachments) > 0
SlowPredicate(r) == Unprocessed(r) /\ table[r].att

\* SELECT COUNT(*) ... WHERE searchable_content IS NULL
get_total_count == Cardinality({r \in Rows : Unprocessed(r)})

get_count_without_attachments == Cardinality({r \in Rows : FastPredicate(r)})

\* SKIP LOCKED: a row locked by an in-flight transaction is passed over.
NotLocked_NoSkip(r) == TRUE

NotLocked(r) == \A t \in Tasks : r \notin claimed[t]

\* ORDER BY channel_id, ts LIMIT k
FirstK(S, k) == {r \in S : Cardinality({q \in S : q < r}) < k}

\* The rows the fast path's sub-select locks.
FastSelect == FirstK({r \in Rows : FastPredicate(r) /\ NotLocked(r)}, InPlaceBatchSize)

\* The rows the slow path's fetch_query locks and returns.
SlowSelect == FirstK({r \in Rows : SlowPredicate(r) /\ NotLocked(r)}, ReembedBatchSize)

\* conn.commit() of the fast path: SET searchable_content = text.
FastCommitted(t) ==
    [r \in Rows |-> IF r \in claimed[t]
                    THEN [table[r] EXCEPT !.searchable_content = table[r].text]
                    ELSE table[r]]

\* conn.rollback(): nothing the transaction wrote becomes visible.
RolledBack_WritesKept(t) == FastCommitted(t)

RolledBack(t) == table

Release(t) == claimed' = [claimed EXCEPT ![t] = {}]

\* ---- run_backfill, one process ----
\* total_count = await get_total_count(pool); "No rows to backfill!"
CountTotal(p) ==
    /\ ppc[p] = "count_total"
    /\ ppc' = [ppc EXCEPT ![p] = IF get_total_count = 0 THEN "done" ELSE "count_without"]
    /\ UNCHANGED <<table, claimed, wpc>>
    /\ UNCHANGED <<crashes, otherThanBackfill>>

\* count_without_attachments = await get_count_without_attachments(pool)
CountWithout(p) ==
    /\ ppc[p] = "count_without"
    /\ ppc' = [ppc EXCEPT ![p] = IF get_count_without_attachments > 0
                                 THEN "phase1_remaining" ELSE "phase2_remaining"]
    /\ UNCHANGED <<table, claimed, wpc>>
    /\ UNCHANGED <<crashes, otherThanBackfill>>

\* Phase 1 loop head: remaining = await get_count_without_attachments(pool)
Phase1Remaining(p) ==
    /\ ppc[p] = "phase1_remaining"
    /\ ppc' = [ppc EXCEPT ![p] = IF get_count_without_attachments = 0
                                 THEN "phase2_remaining" ELSE "phase1_update"]
    /\ UNCHANGED <<table, claimed, wpc>>
    /\ UNCHANGED <<crashes, otherThanBackfill>>

\* backfill_without_attachments: the UPDATE locks the rows of its sub-select and
\* writes them; nothing is visible to others before the commit.
FastUpdate(p) ==
    /\ ppc[p] = "phase1_update"
    /\ claimed' = [claimed EXCEPT ![FastTask(p)] = FastSelect]
    /\ ppc' = [ppc EXCEPT ![p] = "phase1_commit"]
    /\ UNCHANGED <<table, wpc>>
    /\ UNCHANGED <<crashes, otherThanBackfill>>

\* await conn.commit(); back to the loop head.
FastCommit(p) ==
    /\ ppc[p] = "phase1_commit"
    /\ table' = FastCommitted(FastTask(p))
    /\ Release(FastTask(p))
    /\ ppc' = [ppc EXCEPT ![p] = "phase1_remaining"]
    /\ UNCHANGED wpc
    /\ UNCHANGED <<crashes, otherThanBackfill>>

\* The statement or the commit raises: rollback, and the exception leaves
\* run_backfill.
FastRaises(p) ==
    /\ ppc[p] = "phase1_commit"
    /\ table' = RolledBack(FastTask(p))
    /\ Release(FastTask(p))
    /\ ppc' = [ppc EXCEPT ![p] = "raised_phase1"]
    /\ UNCHANGED wpc
    /\ UNCHANGED <<crashes, otherThanBackfill>>

\* remaining_with_attachments = await get_total_count(pool); the workers are
\* spawned with asyncio.gather.
Phase2Remaining(p) ==
    /\ ppc[p] = "phase2_remaining"
    /\ IF get_total_count > 0
       THEN /\ ppc' = [ppc EXCEPT ![p] = "gather"]
            /\ wpc' = [wpc EXCEPT ![p] = [w \in SlowWorkers |-> "claim"]]
       ELSE /\ ppc' = [ppc EXCEPT ![p] = "done"]
            /\ UNCHANGED wpc
    /\ UNCHANGED <<table, claimed>>
    /\ UNCHANGED <<crashes, otherThanBackfill>>

\* ---- backfill_worker_with_attachments / backfill_batch_with_attachments ----
\* The fetch_query runs.  No rows: the batch returns 0 and the worker returns
\* its total.  Otherwise the rows stay locked by the open transaction.
SlowClaim(p, w) ==
    /\ wpc[p][w] = "claim"
    /\ claimed' = [claimed EXCEPT ![SlowTask(p, w)] = SlowSelect]
    /\ wpc' = [wpc EXCEPT ![p][w] = IF SlowSelect = {} THEN "returned" ELSE "claimed"]
    /\ UNCHANGED <<table, ppc>>
    /\ UNCHANGED <<crashes, otherThanBackfill>>

\* Every fetched row has attachments, so messages_to_embed is not empty and
\* add_message_embeddings is called with use_dummy_embeddings=..., a keyword
\* its signature does not have: the call raises TypeError.  The handler rolls
\* back and re-raises; the worker ends and gather raises in run_backfill.
SlowEmbedRaises(p, w) ==
    /\ wpc[p][w] = "claimed"
    /\ table' = RolledBack(SlowTask(p, w))
    /\ Release(SlowTask(p, w))
    /\ wpc' = [wpc EXCEPT ![p][w] = "raised"]
    /\ ppc' = [ppc EXCEPT ![p] = IF @ = "gather" THEN "raised_phase2" ELSE @]
    /\ UNCHANGED <<crashes, otherThanBackfill>>

\* worker_results = await asyncio.gather(*worker_tasks): every worker returned.
GatherReturns(p) ==
    /\ ppc[p] = "gather"
    /\ \A w \in SlowWorkers : wpc[p][w] = "returned"
    /\ ppc' = [ppc EXCEPT ![p] = "done"]
    /\ UNCHANGED <<table, claimed, wpc>>
    /\ UNCHANGED <<crashes, otherThanBackfill>>

\* The process is killed at any point of its run: the server rolls back every
\* transaction it had open, and the script is started again.
Crash(p) ==
    /\ ppc[p] \notin {"done", "raised_phase1", "raised_phase2"}
    /\ crashes[p] < MaxCrashes
    /\ crashes' = [crashes EXCEPT ![p] = @ + 1]
    /\ claimed' = [t \in Tasks |-> IF t[1] = p THEN {} ELSE claimed[t]]
    /\ ppc' = [ppc EXCEPT ![p] = "count_total"]
    /\ wpc' = [wpc EXCEPT ![p] = [w \in SlowWorkers |-> "idle"]]
    /\ UNCHANGED table
    /\ UNCHANGED otherThanBackfill

IdleBackfill ==
    /\ table = [r \in Rows |-> [att |-> FALSE, text |-> "text", searchable_content |-> "text"]]
    /\ claimed = [t \in Tasks |-> {}]
    /\ ppc = [p \in Procs |-> "done"]
    /\ wpc = [p \in Procs |-> [w \in SlowWorkers |-> "idle"]]
    /\ crashes = [p \in Procs |-> 0]

StartBackfill ==
    /\ table \in [Rows -> RowKinds]
    /\ claimed = [t \in Tasks |-> {}]
    /\ ppc = [p \in Procs |-> "count_total"]
    /\ wpc = [p \in Procs |-> [w \in SlowWorkers |-> "idle"]]
    /\ crashes = [p \in Procs |-> 0]

NextBackfill ==
    \/ \E p \in Procs :
          \/ CountTotal(p)
          \/ CountWithout(p)
          \/ Phase1Remaining(p)
          \/ FastUpdate(p)
          \/ FastCommit(p)
          \/ FastRaises(p)
          \/ Phase2Remaining(p)
          \/ GatherReturns(p)
    \/ \E p \in Procs, w \in SlowWorkers :
          \/ SlowClaim(p, w)
          \/ SlowEmbedRaises(p, w)

(***************************************************************************)
(* Migration runner (src/ingest/tiger_slack/migrations/runner.py and       *)
(* src/tiger_slack/migrations/runner.py).  One action per database round   *)
(* trip of migrate_db.                                                     *)
(***************************************************************************)
NumMigrators == 2       \* processes starting migrate_db at the same time
MaxVersion == 1         \* versions are 0..MaxVersion, compared as semver compares

MAX_LOCK_ATTEMPTS == 10

Migrators == 1..NumMigrators
Versions == 0..MaxVersion

\* The directories incremental/ and idempotent/ after paths.sort(), each file
\* by the number sql_file_number gives it.
ScriptDirs ==
    { [incremental |-> <<0, 1>>, idempotent |-> <<0, 999>>],
      [incremental |-> <<0, 2>>, idempotent |-> <<0, 999>>],
      [incremental |-> <<0, 1>>, idempotent |-> <<1>>] }

\* One executed statement: the file it came from and the file's number.
Stmt(kind, n) == <<kind, n>>

RECURSIVE CheckFrom(_, _, _)
CheckFrom(ps, i, prev) ==
    IF i > Len(ps) THEN TRUE
    ELSE IF ps[i] = 999 THEN TRUE
    ELSE IF ps[i] # prev + 1 THEN FALSE
    ELSE CheckFrom(ps, i + 1, ps[i])

\* TRUE when check_sql_file_order returns, FALSE when it raises ValueError.
check_sql_file_order(ps) == CheckFrom(ps, 1, -1)

\* select pg_try_advisory_xact_lock(SHARED_LOCK_KEY)
try_migration_lock_Always == TRUE

try_migration_lock == lock_holder = 0

\* is_migration_required without its downgrade test.
is_migration_required_NoDowngradeTest(target, stored) ==
    IF target # stored THEN "required" ELSE "not_required"

\* is_migration_required comparing with >= where the source has >.
is_migration_required_AtLeast(target, stored) ==
    IF target < stored THEN "ValueError" ELSE "required"

\* is_migration_required: "ValueError" when it raises, otherwise what it
\* returns.
is_migration_required(target, stored) ==
    IF target < stored THEN "ValueError"
    ELSE IF target > stored THEN "required" ELSE "not_required"

\* What a statement taken from a .sql file (timescaledb.sql, init.sql, a
\* script wrapped in migration.sql, an idempotent script) does to the row of
\* slack.version.  The files are not among the sources; the bookkeeping and
\* schema statements they stand for leave the row as it is.
SqlFileVersion(s, v) == v

\* The row of slack.version after statement s.
StmtVersion(s, v) == IF s[1] = "set_version" THEN s[2] ELSE SqlFileVersion(s, v)

\* The row of slack.version after the statements of a transaction.
RECURSIVE VersionAfter(_, _)
VersionAfter(stmts, v) ==
    IF stmts = <<>> THEN v ELSE VersionAfter(Tail(stmts), StmtVersion(Head(stmts), v))

\* The end of the transaction releases the advisory lock.
Unlock(p) == lock_holder' = IF lock_holder = p THEN 0 ELSE lock_holder

\* await cur.execute(sql)
Execute(p, s) == tx' = [tx EXCEPT ![p] = Append(@, s)]

\* What p has committed once its open transaction is rolled back.
AfterRollback_Applied(p) == [committed EXCEPT ![p] = @ \o tx[p]]

AfterRollback(p) == committed

\* An exception leaves the "async with con.transaction()" block: rollback.
Raise(p) ==
    /\ committed' = AfterRollback(p)
    /\ tx' = [tx EXCEPT ![p] = <<>>]
    /\ Unlock(p)
    /\ raised_at' = [raised_at EXCEPT ![p] = mpc[p]]
    /\ mpc' = [mpc EXCEPT ![p] = "failed"]
    /\ UNCHANGED <<runner, target_version, paths, start_version, db_version,
                   attempts, script_k>>
    /\ UNCHANGED otherThanMigrate

InLockLoop(p) == mpc[p] \in {"install_lock", "lock"}

InTransaction(p) ==
    mpc[p] \in {"install_lock", "install_sql", "install_commit", "lock", "init",
                "check", "incremental", "idempotent", "set_version", "commit"}

\* The lock query on a connection in autocommit mode: the lock ends with the
\* statement.
LockAcquired_Autocommit(p) ==
    /\ InLockLoop(p)
    /\ try_migration_lock
    /\ attempts' = [attempts EXCEPT ![p] = 0]
    /\ mpc' = [mpc EXCEPT ![p] = IF @ = "install_lock" THEN "install_sql" ELSE "init"]
    /\ UNCHANGED <<runner, target_version, paths, start_version, db_version,
                   lock_holder, script_k, tx, committed, raised_at>>
    /\ UNCHANGED otherThanMigrate

\* locked = await try_migration_lock(cur); if locked: break
LockAcquired(p) ==
    /\ InLockLoop(p)
    /\ try_migration_lock
    /\ lock_holder' = p
    /\ attempts' = [attempts EXCEPT ![p] = 0]
    /\ mpc' = [mpc EXCEPT ![p] = IF @ = "install_lock" THEN "install_sql" ELSE "init"]
    /\ UNCHANGED <<runner, target_version, paths, start_version, db_version,
                   script_k, tx, committed, raised_at>>
    /\ UNCHANGED otherThanMigrate

\* The retry loop without its test of i against MAX_LOCK_ATTEMPTS.
LockBusy_NoLimit(p) ==
    /\ InLockLoop(p)
    /\ ~try_migration_lock
    /\ attempts' = [attempts EXCEPT ![p] = @ + 1]
    /\ UNCHANGED <<runner, target_version, paths, start_version, db_version,
                   lock_holder, mpc, script_k, tx, committed, raised_at>>
    /\ UNCHANGED otherThanMigrate

\* not locked and i < MAX_LOCK_ATTEMPTS: await asyncio.sleep(LOCK_SLEEP_SECONDS)
LockBusy(p) ==
    /\ InLockLoop(p)
    /\ ~try_migration_lock
    /\ attempts[p] + 1 < MAX_LOCK_ATTEMPTS
    /\ attempts' = [attempts EXCEPT ![p] = @ + 1]
    /\ UNCHANGED <<runner, target_version, paths, start_version, db_version,
                   lock_holder, mpc, script_k, tx, committed, raised_at>>
    /\ UNCHANGED otherThanMigrate

\* not locked and i == MAX_LOCK_ATTEMPTS: RuntimeError
LockExhausted(p) ==
    /\ InLockLoop(p)
    /\ ~try_migration_lock
    /\ attempts[p] + 1 = MAX_LOCK_ATTEMPTS
    /\ Raise(p)

\* install_timescaledb: await cur.execute(sql) of timescaledb.sql
InstallSql(p) ==
    /\ mpc[p] = "install_sql"
    /\ Execute(p, Stmt("timescaledb", 0))
    /\ mpc' = [mpc EXCEPT ![p] = "install_commit"]
    /\ UNCHANGED <<runner, target_version, paths, start_version, db_version,
                   lock_holder, attempts, script_k, committed, raised_at>>
    /\ UNCHANGED otherThanMigrate

\* run_init
RunInit(p) ==
    /\ mpc[p] = "init"
    /\ Execute(p, Stmt("init", 0))
    /\ mpc' = [mpc EXCEPT ![p] = "check"]
    /\ UNCHANGED <<runner, target_version, paths, start_version, db_version,
                   lock_holder, attempts, script_k, committed, raised_at>>
    /\ UNCHANGED otherThanMigrate

\* is_migration_required returns False: "no migration required", return.
NoMigrationRequired(p) ==
    /\ mpc[p] = "check"
    /\ is_migration_required(target_version[p], db_version) = "not_required"
    /\ mpc' = [mpc EXCEPT ![p] = "commit"]
    /\ UNCHANGED <<runner, target_version, paths, start_version, db_version,
                   lock_holder, attempts, script_k, tx, committed, raised_at>>
    /\ UNCHANGED otherThanMigrate

\* is_migration_required logging the downgrade without raising: the run goes
\* on as if no migration were required.
Downgrade_LoggedOnly(p) ==
    /\ mpc[p] = "check"
    /\ is_migration_required(target_version[p], db_version) = "ValueError"
    /\ mpc' = [mpc EXCEPT ![p] = "commit"]
    /\ UNCHANGED <<runner, target_version, paths, start_version, db_version,
                   lock_holder, attempts, script_k, tx, committed, raised_at>>
    /\ UNCHANGED otherThanMigrate

\* is_migration_required raises ValueError: "Cannot downgrade".
Downgrade(p) ==
    /\ mpc[p] = "check"
    /\ is_migration_required(target_version[p], db_version) = "ValueError"
    /\ Raise(p)

\* migrate_db calling run_idempotent before run_incremental.
MigrationRequired_IdempotentFirst(p) ==
    /\ mpc[p] = "check"
    /\ is_migration_required(target_version[p], db_version) = "required"
    /\ check_sql_file_order(paths.idempotent)
    /\ mpc' = [mpc EXCEPT ![p] = "idempotent"]
    /\ script_k' = [script_k EXCEPT ![p] = 1]
    /\ UNCHANGED <<runner, target_version, paths, start_version, db_version,
                   lock_holder, attempts, tx, committed, raised_at>>
    /\ UNCHANGED otherThanMigrate

\* is_migration_required returns True; run_incremental lists the directory and
\* check_sql_file_order passes.
MigrationRequired(p) ==
    /\ mpc[p] = "check"
    /\ is_migration_required(target_version[p], db_version) = "required"
    /\ check_sql_file_order(paths.incremental)
    /\ mpc' = [mpc EXCEPT ![p] = "incremental"]
    /\ script_k' = [script_k EXCEPT ![p] = 1]
    /\ UNCHANGED <<runner, target_version, paths, start_version, db_version,
                   lock_holder, attempts, tx, committed, raised_at>>
    /\ UNCHANGED otherThanMigrate

\* The same, but check_sql_file_order raises for incremental/.
IncrementalOrderRaises(p) ==
    /\ mpc[p] = "check"
    /\ is_migration_required(target_version[p], db_version) = "required"
    /\ ~check_sql_file_order(paths.incremental)
    /\ Raise(p)

\* run_incremental: one script; after the last one run_idempotent lists its
\* directory and check_sql_file_order passes.
IncrementalSql(p) ==
    /\ mpc[p] = "incremental"
    /\ Execute(p, Stmt("incremental", paths.incremental[script_k[p]]))
    /\ IF script_k[p] < Len(paths.incremental)
       THEN /\ script_k' = [script_k EXCEPT ![p] = @ + 1]
            /\ UNCHANGED mpc
       ELSE /\ check_sql_file_order(paths.idempotent)
            /\ script_k' = [script_k EXCEPT ![p] = 1]
            /\ mpc' = [mpc EXCEPT ![p] = "idempotent"]
    /\ UNCHANGED <<runner, target_version, paths, start_version, db_version,
                   lock_holder, attempts, committed, raised_at>>
    /\ UNCHANGED otherThanMigrate

\* The last incremental script ran and check_sql_file_order raises for
\* idempotent/.
IdempotentOrderRaises(p) ==
    /\ mpc[p] = "incremental"
    /\ script_k[p] = Len(paths.incremental)
    /\ ~check_sql_file_order(paths.idempotent)
    /\ Raise(p)

\* run_idempotent: one script.
IdempotentSql(p) ==
    /\ mpc[p] = "idempotent"
    /\ Execute(p, Stmt("idempotent", paths.idempotent[script_k[p]]))
    /\ IF script_k[p] < Len(paths.idempotent)
       THEN /\ script_k' = [script_k EXCEPT ![p] = @ + 1]
            /\ UNCHANGED mpc
       ELSE /\ script_k' = [script_k EXCEPT ![p] = 0]
            /\ mpc' = [mpc EXCEPT ![p] = "set_version"]
    /\ UNCHANGED <<runner, target_version, paths, start_version, db_version,
                   lock_holder, attempts, committed, raised_at>>
    /\ UNCHANGED otherThanMigrate

\* set_version
SetVersion(p) ==
    /\ mpc[p] = "set_version"
    /\ Execute(p, Stmt("set_version", target_version[p]))
    /\ mpc' = [mpc EXCEPT ![p] = "commit"]
    /\ UNCHANGED <<runner, target_version, paths, start_version, db_version,
                   lock_holder, attempts, script_k, committed, raised_at>>
    /\ UNCHANGED otherThanMigrate

\* The transaction block is left normally: commit.  After install_timescaledb
\* migrate_db opens its own connection and transaction.
Commit(p) ==
    /\ mpc[p] \in {"install_commit", "commit"}
    /\ committed' = [committed EXCEPT ![p] = @ \o tx[p]]
    /\ db_version' = VersionAfter(tx[p], db_version)
    /\ tx' = [tx EXCEPT ![p] = <<>>]
    /\ Unlock(p)
    /\ mpc' = [mpc EXCEPT ![p] = IF @ = "install_commit" THEN "lock" ELSE "done"]
    /\ UNCHANGED <<runner, target_version, paths, start_version, attempts,
                   script_k, raised_at>>
    /\ UNCHANGED otherThanMigrate

\* The statement, the lock query or the commit p is in raises.
StepRaises(p) ==
    /\ InTransaction(p)
    /\ Raise(p)

IdleMigrate ==
    /\ runner = "agent"
    /\ target_version = [p \in Migrators |-> 0]
    /\ paths = [incremental |-> <<0, 1>>, idempotent |-> <<0, 999>>]
    /\ start_version = 0
    /\ db_version = 0
    /\ lock_holder = 0
    /\ mpc = [p \in Migrators |-> "done"]
    /\ attempts = [p \in Migrators |-> 0]
    /\ script_k = [p \in Migrators |-> 0]
    /\ tx = [p \in Migrators |-> <<>>]
    /\ committed = [p \in Migrators |-> <<>>]
    /\ raised_at = [p \in Migrators |-> "none"]

StartMigrate ==
    /\ runner \in {"ingest", "agent"}
    /\ \E v \in Versions : target_version = [p \in Migrators |-> v]
    /\ paths \in ScriptDirs
    /\ start_version \in Versions
    /\ db_version = start_version
    /\ lock_holder = 0
    /\ mpc = [p \in Migrators |-> IF runner = "ingest" THEN "install_lock" ELSE "lock"]
    /\ attempts = [p \in Migrators |-> 0]
    /\ script_k = [p \in Migrators |-> 0]
    /\ tx = [p \in Migrators |-> <<>>]
    /\ committed = [p \in Migrators |-> <<>>]
    /\ raised_at = [p \in Migrators |-> "none"]

\* Processes whose packages carry any versions, the same or not.
StartMigrateTargets ==
    /\ runner \in {"ingest", "agent"}
    /\ target_version \in [Migrators -> Versions]
    /\ paths = [incremental |-> <<0, 1>>, idempotent |-> <<0, 999>>]
    /\ start_version \in Versions
    /\ db_version = start_version
    /\ lock_holder = 0
    /\ mpc = [p \in Migrators |-> IF runner = "ingest" THEN "install_lock" ELSE "lock"]
    /\ attempts = [p \in Migrators |-> 0]
    /\ script_k = [p \in Migrators |-> 0]
    /\ tx = [p \in Migrators |-> <<>>]
    /\ committed = [p \in Migrators |-> <<>>]
    /\ raised_at = [p \in Migrators |-> "none"]

NextMigrate ==
    \E p \in Migrators :
        \/ LockAcquired(p)
        \/ LockBusy(p)
        \/ LockExhausted(p)
        \/ InstallSql(p)
        \/ RunInit(p)
        \/ NoMigrationRequired(p)
        \/ Downgrade(p)
        \/ MigrationRequired(p)
        \/ IncrementalOrderRaises(p)
        \/ IncrementalSql(p)
        \/ IdempotentOrderRaises(p)
        \/ IdempotentSql(p)
        \/ SetVersion(p)
        \/ Commit(p)
        \/ StepRaises(p)

(***************************************************************************)
(* Application startup: run_import (src/ingest/scripts/import.py) and main *)
(* (src/ingest/tiger_slack/main.py).  The application is process AppProc   *)
(* of the migration; the other processes are its peers on the database.    *)
(***************************************************************************)
AppProc == 1

\* async with AsyncConnectionPool(...) as pool: await pool.wait(), entered
\* without awaiting migrate_db first.
OpenPool_BeforeMigration ==
    /\ spc = "migrate_db"
    /\ spc' = "pool"
    /\ UNCHANGED <<app, importVars, backfillVars, migrateVars, storeVars, jobVars, utilsVars, serviceVars>>

\* await migrate_db() returned: async with AsyncConnectionPool(...) as pool,
\* await pool.wait()
OpenPool ==
    /\ spc = "migrate_db"
    /\ mpc[AppProc] = "done"
    /\ spc' = "pool"
    /\ UNCHANGED <<app, importVars, backfillVars, migrateVars, storeVars, jobVars, utilsVars, serviceVars>>

\* await migrate_db() raised: the exception leaves run_import or main.
MigrateRaised ==
    /\ spc = "migrate_db"
    /\ mpc[AppProc] = "failed"
    /\ spc' = "raised"
    /\ UNCHANGED <<app, importVars, backfillVars, migrateVars, storeVars, jobVars, utilsVars, serviceVars>>

\* run_import: load_messages fills the queue and starts the workers.
LoadMessages ==
    /\ app = "run_import"
    /\ spc = "pool"
    /\ \E j \in 0..MaxFiles :
          /\ file_queue' = InitialQueue(j)
          /\ yielded' = [f \in 1..j |-> <<>>]
    /\ pc' = [w \in Workers |-> "get"]
    /\ spc' = "load_messages"
    /\ UNCHANGED <<item, message_buffer, current_message_batch, token_count, flushed>>
    /\ UNCHANGED <<app, backfillVars, migrateVars, storeVars, jobVars, utilsVars, serviceVars>>

\* main: register_handlers(app, pool), then the socket mode handler starts.
RegisterHandlers ==
    /\ app = "main"
    /\ spc = "pool"
    /\ spc' = "handlers"
    /\ UNCHANGED <<app, importVars, backfillVars, migrateVars, storeVars, jobVars, utilsVars, serviceVars>>

IdleStartup ==
    /\ app = "main"
    /\ spc = "idle"

\* The application process starts migrate_db (install_timescaledb first);
\* a peer may be in its migration transaction, holding the lock.
StartStartup ==
    /\ app \in {"run_import", "main"}
    /\ spc = "migrate_db"
    /\ runner = "ingest"
    /\ \E v \in Versions : target_version = [p \in Migrators |-> v]
    /\ paths \in ScriptDirs
    /\ start_version \in Versions
    /\ db_version = start_version
    /\ lock_holder \in {0} \cup (Migrators \ {AppProc})
    /\ mpc = [p \in Migrators |-> IF p = AppProc THEN "install_lock"
                                   ELSE IF p = lock_holder THEN "init" ELSE "done"]
    /\ attempts = [p \in Migrators |-> 0]
    /\ script_k = [p \in Migrators |-> 0]
    /\ tx = [p \in Migrators |-> <<>>]
    /\ committed = [p \in Migrators |->
                        IF p = AppProc THEN <<>> ELSE <<Stmt("timescaledb", 0)>>]
    /\ raised_at = [p \in Migrators |-> "none"]

NextStartup ==
    \/ OpenPool
    \/ MigrateRaised
    \/ LoadMessages
    \/ RegisterHandlers

\* What the job file holds after json.dump of a state, and after open("w")
\* alone.
Saved(offset, status) == [content |-> "state", current_offset |-> offset, status |-> status]

Truncated == [content |-> "truncated", current_offset |-> 0, status |-> ""]

IdleJob ==
    /\ source_rows = 0
    /\ dest = {}
    /\ batch_size = 1
    /\ current_offset = 0
    /\ total_count = 0
    /\ job_state = "completed"
    /\ job_file = Saved(0, "completed")
    /\ jpc = "done"
    /\ restarts = 0

(***************************************************************************)
(* Bulk message write: MESSAGE_SQL and load_messages of                    *)
(* src/db/tiger_slack/import.py.  A batch is one file: its channel_id and   *)
(* the JSON array of its objects.                                          *)
(***************************************************************************)
MaxTs == 1              \* ts values 1..MaxTs (as timestamps, after slack.to_timestamptz)
MaxBatchLen == 1        \* objects per JSON array
MaxDeliveries == 2      \* how often one batch is followed being written

Channels == {"C1", "C2"}

Texts == {"a", "b"}

Objects ==
    [ts : 1..MaxTs, type : {"message"}, text : Texts]
        \cup [ts : 1..MaxTs, type : {"channel_join"}, text : {"a"}]

JsonArrays == UNION {[1..n -> Objects] : n \in 0..MaxBatchLen}

Files == [channel_id : Channels, json : JsonArrays]

\* The collection holds two batches: enough for an order and a repetition.
BatchIds == {1, 2}

\* The natural key of the row made from object o of a file of channel_id.
Key(channel_id, o) == <<o.ts, channel_id>>

\* insert ... on conflict (ts, channel_id) do update: the row is overwritten.
InsertRow_Upsert(tbl, channel_id, o) ==
    IF o.type = "message"
    THEN [k \in DOMAIN tbl \cup {Key(channel_id, o)} |->
             IF k = Key(channel_id, o) THEN o.text ELSE tbl[k]]
    ELSE tbl

\* The insert without `where o->>'type' = 'message'`.
InsertRow_AllTypes(tbl, channel_id, o) ==
    IF Key(channel_id, o) \notin DOMAIN tbl
    THEN tbl @@ (Key(channel_id, o) :> o.text)
    ELSE tbl

\* One element of jsonb_array_elements: where o->>'type' = 'message',
\* on conflict (ts, channel_id) do nothing.
InsertRow(tbl, channel_id, o) ==
    IF o.type = "message" /\ Key(channel_id, o) \notin DOMAIN tbl
    THEN tbl @@ (Key(channel_id, o) :> o.text)
    ELSE tbl

\* The table after MESSAGE_SQL with parameters channel_id and json.
RECURSIVE MESSAGE_SQL(_, _, _)
MESSAGE_SQL(tbl, channel_id, json) ==
    IF json = <<>> THEN tbl
    ELSE MESSAGE_SQL(InsertRow(tbl, channel_id, Head(json)), channel_id, Tail(json))

\* load_messages: the statement runs in a transaction that commits.
DbLoadMessages(i) ==
    /\ deliveries[i] < MaxDeliveries
    /\ message' = MESSAGE_SQL(message, batches[i].channel_id, batches[i].json)
    /\ deliveries' = [deliveries EXCEPT ![i] = @ + 1]
    /\ UNCHANGED batches
    /\ UNCHANGED otherThanStore

\* load_messages: the statement raises psycopg.Error; the transaction is
\* rolled back and the exception is logged.
DbLoadMessagesRaises(i) ==
    /\ deliveries[i] < MaxDeliveries
    /\ UNCHANGED <<message, batches, deliveries>>
    /\ UNCHANGED otherThanStore

IdleStore ==
    /\ message = <<>>
    /\ batches = <<>>
    /\ deliveries = <<>>

\* An empty table and a collection of two batches.
StartStore ==
    /\ message = <<>>
    /\ batches \in [BatchIds -> Files]
    /\ deliveries = [i \in BatchIds |-> 0]

NextStore ==
    \E i \in BatchIds :
        \/ DbLoadMessages(i)
        \/ DbLoadMessagesRaises(i)

(***************************************************************************)
(* Batched table copy: run_migration of                                    *)
(* src/ingest/scripts/migrate_messages.py.  The rows of slack.message are  *)
(* numbered 1..source_rows in (channel_id, ts) order; the source does not  *)
(* change while the copy runs.                                             *)
(***************************************************************************)
MaxSourceRows == 3      \* rows of slack.message: 0..MaxSourceRows
MaxBatchSize == 2       \* --batch-size: 1..MaxBatchSize
MaxRestarts == 1        \* how often the script is followed being started again

\* SELECT ... ORDER BY channel_id, ts OFFSET offset LIMIT size
SelectBatch(offset, size) == {r \in 1..source_rows : offset < r /\ r <= offset + size}

\* get_total_count
JobGetTotalCount ==
    /\ jpc = "count"
    /\ total_count' = source_rows
    /\ jpc' = "batch"
    /\ UNCHANGED <<source_rows, dest, batch_size, current_offset, job_state,
                   job_file, restarts>>
    /\ UNCHANGED otherThanJob

\* migrate_batch: INSERT ... ON CONFLICT (channel_id, ts) DO NOTHING and
\* commit; then current_offset += batch_size.
MigrateBatch ==
    /\ jpc = "batch"
    /\ dest' = dest \cup SelectBatch(current_offset, batch_size)
    /\ current_offset' = current_offset + batch_size
    /\ jpc' = "open"
    /\ UNCHANGED <<source_rows, batch_size, total_count, job_state, job_file, restarts>>
    /\ UNCHANGED otherThanJob

\* migrate_batch or get_total_count raises: the transaction is not committed,
\* the connection is closed and the exception ends the script.
JobRaises ==
    /\ jpc \in {"count", "batch"}
    /\ jpc' = "stopped"
    /\ UNCHANGED <<source_rows, dest, batch_size, current_offset, total_count,
                   job_state, job_file, restarts>>
    /\ UNCHANGED otherThanJob

\* save_job_state: job_file.open("w") truncates the file.
SaveOpen ==
    /\ jpc = "open"
    /\ job_file' = Truncated
    /\ jpc' = "dump"
    /\ UNCHANGED <<source_rows, dest, batch_size, current_offset, total_count,
                   job_state, restarts>>
    /\ UNCHANGED otherThanJob

\* save_job_state: json.dump and the close of the file write the state.
SaveDump ==
    /\ jpc = "dump"
    /\ job_file' = Saved(current_offset, job_state)
    /\ jpc' = IF job_state = "completed" THEN "done" ELSE "check"
    /\ UNCHANGED <<source_rows, dest, batch_size, current_offset, total_count,
                   job_state, restarts>>
    /\ UNCHANGED otherThanJob

\* if current_offset >= total_count: status "completed", saved, break;
\* otherwise the next batch after the sleep.
JobCheck ==
    /\ jpc = "check"
    /\ IF current_offset >= total_count
       THEN job_state' = "completed" /\ jpc' = "open"
       ELSE job_state' = job_state /\ jpc' = "batch"
    /\ UNCHANGED <<source_rows, dest, batch_size, current_offset, total_count,
                   job_file, restarts>>
    /\ UNCHANGED otherThanJob

\* The process is killed: what it held in memory is gone, an open
\* transaction is rolled back, the job file is as the last write left it.
JobCrash ==
    /\ jpc \in {"count", "batch", "open", "dump", "check"}
    /\ jpc' = "stopped"
    /\ UNCHANGED <<source_rows, dest, batch_size, current_offset, total_count,
                   job_state, job_file, restarts>>
    /\ UNCHANGED otherThanJob

\* --resume: load_job_state reads the job file; json.load raises on a
\* truncated file.
JobResume ==
    /\ jpc = "stopped"
    /\ restarts < MaxRestarts
    /\ restarts' = restarts + 1
    /\ IF job_file = Truncated
       THEN /\ jpc' = "resume_failed"
            /\ UNCHANGED <<batch_size, current_offset, job_state>>
       ELSE /\ jpc' = "count"
            /\ current_offset' = job_file.current_offset
            /\ job_state' = job_file.status
            /\ batch_size' \in 1..MaxBatchSize
    /\ UNCHANGED <<source_rows, dest, total_count, job_file>>
    /\ UNCHANGED otherThanJob

\* A new migration: the state with current_offset 0 has been saved.
StartJob ==
    /\ source_rows \in 0..MaxSourceRows
    /\ dest = {}
    /\ batch_size \in 1..MaxBatchSize
    /\ current_offset = 0
    /\ total_count = 0
    /\ job_state = "running"
    /\ job_file = Saved(0, "running")
    /\ jpc = "count"
    /\ restarts = 0

NextJob ==
    \/ JobGetTotalCount
    \/ MigrateBatch
    \/ JobRaises
    \/ SaveOpen
    \/ SaveDump
    \/ JobCheck
    \/ JobCrash
    \/ JobResume

(***************************************************************************)
(* add_message_embeddings (src/ingest/tiger_slack/utils.py).  A message is *)
(* its content (the field to embed, "" when it is missing or empty) and    *)
(* its "embedding" key.  Positions of messages count from 1 here and from  *)
(* 0 in the source; requests are numbered from 0 as in the source, request *)
(* r being embedding_requests[r + 1].                                      *)
(***************************************************************************)
MaxMessages == 3

NoContent == ""

Contents == {NoContent, "one", "most", "all"}

\* len(token_encoder.encode(content))
TokensInContent(content) ==
    CASE content = "one"  -> 1
      [] content = "most" -> MAX_TOKENS_PER_EMBEDDING_REQUEST - 1
      [] content = "all"  -> MAX_TOKENS_PER_EMBEDDING_REQUEST
      [] OTHER            -> 0

NoEmbedding == <<>>

\* What the embedder returns for string i of its call number r.
Embedding(r, i, content) == <<r, i, content>>

\* One iteration of `for request_index, message in enumerate(messages)`;
\* raised: embedding_requests[embedding_requests_index] is out of range.
RequestLoopBody(st, request_index, content) ==
    IF content = NoContent THEN st
    ELSE
        LET tokens_in_content == TokensInContent(content)
            can_encode_message_in_request ==
                (st.token_count + tokens_in_content) < MAX_TOKENS_PER_EMBEDDING_REQUEST
            index == IF can_encode_message_in_request
                     THEN st.embedding_requests_index
                     ELSE st.embedding_requests_index + 1
            count == IF can_encode_message_in_request THEN st.token_count ELSE 0
            requests == IF index >= Len(st.embedding_requests)
                        THEN Append(st.embedding_requests, <<>>)
                        ELSE st.embedding_requests
            map == st.index_map_per_request
        IN  IF index >= Len(requests)
            THEN [st EXCEPT !.embedding_requests = requests,
                            !.embedding_requests_index = index,
                            !.token_count = count,
                            !.raised = TRUE]
            ELSE [embedding_requests |->
                      [requests EXCEPT ![index + 1] = Append(@, content)],
                  embedding_requests_index |-> index,
                  token_count |-> count + tokens_in_content,
                  index_map_per_request |->
                      [r \in DOMAIN map \cup {index} |->
                          IF r = index
                          THEN Append(IF r \in DOMAIN map THEN map[r] ELSE <<>>,
                                      request_index)
                          ELSE map[r]],
                  raised |-> FALSE]

RECURSIVE RequestsFrom(_, _, _)
RequestsFrom(msgs, k, st) ==
    IF k > Len(msgs) \/ st.raised THEN st
    ELSE RequestsFrom(msgs, k + 1, RequestLoopBody(st, k, msgs[k].content))

\* The state of the first loop when it ends or raises.
BuiltRequests(msgs) ==
    RequestsFrom(msgs, 1, [embedding_requests |-> <<>>,
                           embedding_requests_index |-> 0,
                           token_count |-> 0,
                           index_map_per_request |-> <<>>,
                           raised |-> FALSE])

\* The first loop ends; `if not embedding_requests: return`.
BuildRequests ==
    /\ epc = "for"
    /\ \E st \in {BuiltRequests(messages)} :
          /\ ~st.raised
          /\ embedding_requests' = st.embedding_requests
          /\ index_map_per_request' = st.index_map_per_request
          /\ epc' = IF st.embedding_requests = <<>> THEN "returned" ELSE "embed"
    /\ UNCHANGED <<messages, embedder_calls>>
    /\ UNCHANGED otherThanEmbed

\* The first loop raises IndexError, which leaves add_message_embeddings.
BuildRequestsRaises ==
    /\ epc = "for"
    /\ \E st \in {BuiltRequests(messages)} :
          /\ st.raised
          /\ embedding_requests' = st.embedding_requests
          /\ index_map_per_request' = st.index_map_per_request
    /\ epc' = "IndexError"
    /\ UNCHANGED <<messages, embedder_calls>>
    /\ UNCHANGED otherThanEmbed

\* The embeddings written to the message at the position of each string in
\* the request, whatever index_map_per_request holds.
EmbedDocuments_ByPosition ==
    /\ epc = "embed"
    /\ LET r == Len(embedder_calls) + 1
           request == embedding_requests[r]
       IN  /\ embedder_calls' = Append(embedder_calls, request)
           /\ messages' = [k \in DOMAIN messages |->
                  IF k \in DOMAIN request
                  THEN [messages[k] EXCEPT !.embedding = Embedding(r, k, request[k])]
                  ELSE messages[k]]
           /\ epc' = IF r = Len(embedding_requests) THEN "returned" ELSE "embed"
    /\ UNCHANGED <<embedding_requests, index_map_per_request>>
    /\ UNCHANGED otherThanEmbed

\* One turn of `for request_index, request in enumerate(embedding_requests)`:
\* embed_documents returns one embedding per string, each is written to the
\* message index_map_per_request names.
EmbedDocuments ==
    /\ epc = "embed"
    /\ LET r == Len(embedder_calls) + 1
           request == embedding_requests[r]
           message_index == index_map_per_request[r - 1]
       IN  /\ embedder_calls' = Append(embedder_calls, request)
           /\ messages' = [k \in DOMAIN messages |->
                  IF \E i \in DOMAIN request : message_index[i] = k
                  THEN LET i == CHOOSE i \in DOMAIN request : message_index[i] = k
                       IN  [messages[k] EXCEPT !.embedding = Embedding(r, i, request[i])]
                  ELSE messages[k]]
           /\ epc' = IF r = Len(embedding_requests) THEN "returned" ELSE "embed"
    /\ UNCHANGED <<embedding_requests, index_map_per_request>>
    /\ UNCHANGED otherThanEmbed

\* embed_documents raises: logged ("Could not embed messages"), the loop is
\* left and the function returns.
EmbedDocumentsRaises ==
    /\ epc = "embed"
    /\ embedder_calls' = Append(embedder_calls, embedding_requests[Len(embedder_calls) + 1])
    /\ epc' = "logged"
    /\ UNCHANGED <<messages, embedding_requests, index_map_per_request>>
    /\ UNCHANGED otherThanEmbed

IdleEmbed ==
    /\ messages = <<>>
    /\ embedding_requests = <<>>
    /\ index_map_per_request = <<>>
    /\ embedder_calls = <<>>
    /\ epc = "returned"

\* add_message_embeddings is called with up to MaxMessages messages.
StartEmbed ==
    /\ \E n \in 0..MaxMessages :
          messages \in [1..n -> [content : Contents, embedding : {NoEmbedding}]]
    /\ embedding_requests = <<>>
    /\ index_map_per_request = <<>>
    /\ embedder_calls = <<>>
    /\ epc = "for"

NextEmbed ==
    \/ BuildRequests
    \/ BuildRequestsRaises
    \/ EmbedDocuments
    \/ EmbedDocumentsRaises

(***************************************************************************)
(* Pure functions, each called once on an argument.                        *)
(***************************************************************************)
Pending == [kind |-> "pending"]

Returned(value) == [kind |-> "returned", value |-> value]

Raised(exception, at) == [kind |-> exception, at |-> at]

(***************************************************************************)
(* check_sql_file_order and sql_file_number                                *)
(* (src/ingest/tiger_slack/migrations/runner.py).  A path is its file      *)
(* name, cut into the digits it starts with and the rest: "lower" when the *)
(* rest is `-[a-z][a-z-]*.sql`, "other" when it is not.                    *)
(***************************************************************************)
SqlFile(name, digits, rest) == [name |-> name, digits |-> digits, rest |-> rest]

\* The files a script directory may hold, in the order paths.sort() gives
\* them (digits before upper case before lower case).
SqlFiles ==
    << SqlFile("000-init.sql",  <<0, 0, 0>>, "lower"),
       SqlFile("001-Users.sql", <<0, 0, 1>>, "other"),
       SqlFile("001-add.sql",   <<0, 0, 1>>, "lower"),
       SqlFile("001-drop.sql",  <<0, 0, 1>>, "lower"),
       SqlFile("002-more.sql",  <<0, 0, 2>>, "lower"),
       SqlFile("03-short.sql",  <<0, 3>>,    "lower"),
       SqlFile("999-Last.sql",  <<9, 9, 9>>, "other"),
       SqlFile("999-last.sql",  <<9, 9, 9>>, "lower"),
       SqlFile("README.sql",    <<>>,        "other") >>

\* re.match(r"^(\d{3})-[a-z][a-z-]*\.sql$", path.name)
MatchesPattern(path) == Len(path.digits) = 3 /\ path.rest = "lower"

\* int(match.group(1))
sql_file_number(path) == 100 * path.digits[1] + 10 * path.digits[2] + path.digits[3]

\* The loop of check_sql_file_order without `if this == 999: break`.
RECURSIVE CheckPaths_NoEscape(_, _, _)
CheckPaths_NoEscape(ps, i, prev) ==
    IF i > Len(ps) THEN 0
    ELSE IF ~MatchesPattern(ps[i]) THEN i
    ELSE IF sql_file_number(ps[i]) # prev + 1 THEN i
    ELSE CheckPaths_NoEscape(ps, i + 1, sql_file_number(ps[i]))

\* The loop of check_sql_file_order from file i on: 0 when it ends or
\* breaks, else the position of the file at which ValueError is raised (by
\* sql_file_number or by the order test).
RECURSIVE CheckPaths(_, _, _)
CheckPaths(ps, i, prev) ==
    IF i > Len(ps) THEN 0
    ELSE IF ~MatchesPattern(ps[i]) THEN i
    ELSE IF sql_file_number(ps[i]) = 999 THEN 0
    ELSE IF sql_file_number(ps[i]) # prev + 1 THEN i
    ELSE CheckPaths(ps, i + 1, sql_file_number(ps[i]))

\* The sorted directory listings: every selection of SqlFiles, in order.
RECURSIVE Listing(_, _)
Listing(S, i) ==
    IF i > Len(SqlFiles) THEN <<>>
    ELSE (IF i \in S THEN <<SqlFiles[i]>> ELSE <<>>) \o Listing(S, i + 1)

(***************************************************************************)
(* remove_null_bytes (src/ingest/tiger_slack/utils.py).  A string is the   *)
(* sequence of its characters, NUL being the null character; a list holds  *)
(* its items and a dict its key/value pairs in insertion order.            *)
(***************************************************************************)
NUL == "\\x00"

\* The six characters of the escaped text \u0000.
EscapedNul == <<"\\", "u", "0", "0", "0", "0">>

Str(s) == [t |-> "str", s |-> s, items |-> <<>>]

Scalar(repr) == [t |-> "scalar", s |-> <<repr>>, items |-> <<>>]

List(items) == [t |-> "list", s |-> <<>>, items |-> items]

Dict(pairs) == [t |-> "dict", s |-> <<>>, items |-> pairs]

Pair(key, value) == [key |-> key, value |-> value]

\* obj.replace("\x00", "")
RECURSIVE ReplaceNul(_)
ReplaceNul(s) ==
    IF s = <<>> THEN <<>>
    ELSE IF Head(s) = NUL THEN ReplaceNul(Tail(s))
    ELSE <<Head(s)>> \o ReplaceNul(Tail(s))

\* re.sub(r"(?<!\\)\\u0000", "", obj), from position i on.
RECURSIVE SubEscapedNul(_, _)
SubEscapedNul(s, i) ==
    IF i > Len(s) THEN <<>>
    ELSE IF /\ i + 5 <= Len(s)
            /\ SubSeq(s, i, i + 5) = EscapedNul
            /\ (i = 1 \/ s[i - 1] # "\\")
         THEN SubEscapedNul(s, i + 6)
         ELSE <<s[i]>> \o SubEscapedNul(s, i + 1)

\* remove_null_bytes applied to strings only, not to what lists and dicts
\* hold.
remove_null_bytes_TopLevel(obj, escaped) ==
    IF obj.t = "str"
    THEN Str(IF escaped THEN SubEscapedNul(obj.s, 1) ELSE ReplaceNul(obj.s))
    ELSE obj

\* The recursive calls do not pass escaped on: items and values are cleaned
\* with the default, escaped=False.
RECURSIVE remove_null_bytes(_, _)
remove_null_bytes(obj, escaped) ==
    CASE obj.t = "str" ->
            Str(IF escaped THEN SubEscapedNul(obj.s, 1) ELSE ReplaceNul(obj.s))
      [] obj.t = "list" ->
            List([i \in DOMAIN obj.items |-> remove_null_bytes(obj.items[i], FALSE)])
      [] obj.t = "dict" ->
            Dict([i \in DOMAIN obj.items |->
                    Pair(obj.items[i].key, remove_null_bytes(obj.items[i].value, FALSE))])
      [] OTHER -> obj

\* Strings with and without null characters and escaped text; the scalars
\* 12345, False and None.
StringValues ==
    { Str(<<>>), Str(<<"a">>), Str(<<NUL>>), Str(<<"a", NUL, "b">>),
      Str(<<NUL, "a", NUL>>), Str(<<"a">> \o EscapedNul),
      Str(<<NUL>> \o EscapedNul \o <<NUL>>) }

Leaves == StringValues \cup {Scalar("12345"), Scalar("False"), Scalar("None")}

Keys == { <<"k">>, <<"k", NUL>> }

\* Lists and dicts of up to two members drawn from V.
Containers(V) ==
    {List(<<>>), Dict(<<>>)}
    \cup {List(<<a>>) : a \in V}
    \cup {List(<<a, b>>) : a \in V, b \in V}
    \cup {Dict(<<Pair(k, a)>>) : k \in Keys, a \in V}
    \cup {Dict(<<Pair(<<"k">>, a), Pair(<<"k", NUL>>, b)>>) : a \in V, b \in V}

\* Containers of one member drawn from V.
Wrappers(V) ==
    {List(<<a>>) : a \in V} \cup {Dict(<<Pair(<<"k">>, a)>>) : a \in V}

\* The values remove_null_bytes is called on: nested to depth 3.
Objects3 == Leaves \cup Containers(Leaves) \cup Wrappers(Containers(Leaves))
              \cup Wrappers(Wrappers(Containers(StringValues)))

RemoveNullBytes ==
    /\ fn = "remove_null_bytes"
    /\ result = Pending
    /\ result' = Returned(remove_null_bytes(arg.obj, arg.escaped))
    /\ UNCHANGED <<fn, arg>>
    /\ UNCHANGED otherThanCalls

(***************************************************************************)
(* parse_since_flag (src/ingest/tiger_slack/utils.py).  The input is the   *)
(* sequence of its characters.                                             *)
(***************************************************************************)
DigitChars == <<"0", "1", "2", "3", "4", "5", "6", "7", "8", "9">>

IsDigit(c) == \E n \in DOMAIN DigitChars : DigitChars[n] = c

DigitValue(c) == (CHOOSE n \in DOMAIN DigitChars : DigitChars[n] = c) - 1

\* int() of a string of digits
RECURSIVE IntOf(_)
IntOf(ds) ==
    IF ds = <<>> THEN 0 ELSE 10 * IntOf(SubSeq(ds, 1, Len(ds) - 1)) + DigitValue(ds[Len(ds)])

AllDigits(s) == \A i \in DOMAIN s : IsDigit(s[i])

IsLeap(y) == y % 4 = 0 /\ (y % 100 # 0 \/ y % 400 = 0)

DaysInMonth(y, m) ==
    CASE m \in {4, 6, 9, 11} -> 30
      [] m = 2 -> IF IsLeap(y) THEN 29 ELSE 28
      [] OTHER -> 31

\* date(y, m, d) exists.
IsDate(y, m, d) == y >= 1 /\ m \in 1..12 /\ d >= 1 /\ d <= DaysInMonth(y, m)

Date(y, m, d) == [year |-> y, month |-> m, day |-> d]

\* The value of the characters of s from position i that the directive
\* matches, as <<value, next position>>, or <<>> when it does not match:
\* %m is 1[0-2]|0[1-9]|[1-9] followed by the "-" of the format, %d is
\* 3[0-1]|[1-2]\d|0[1-9]|[1-9]| [1-9] at the end of the format.
MonthAt(s, i) ==
    IF i + 2 <= Len(s) /\ IsDigit(s[i]) /\ IsDigit(s[i + 1]) /\ s[i + 2] = "-"
       /\ IntOf(SubSeq(s, i, i + 1)) \in 1..12
    THEN <<IntOf(SubSeq(s, i, i + 1)), i + 3>>
    ELSE IF i + 1 <= Len(s) /\ IsDigit(s[i]) /\ s[i] # "0" /\ s[i + 1] = "-"
    THEN <<DigitValue(s[i]), i + 2>>
    ELSE <<>>

DayAt(s, i) ==
    IF i + 1 <= Len(s) /\ IsDigit(s[i]) /\ IsDigit(s[i + 1])
       /\ IntOf(SubSeq(s, i, i + 1)) \in 1..31
    THEN <<IntOf(SubSeq(s, i, i + 1)), i + 2>>
    ELSE IF i <= Len(s) /\ IsDigit(s[i]) /\ s[i] # "0"
    THEN <<DigitValue(s[i]), i + 1>>
    ELSE IF i + 1 <= Len(s) /\ s[i] = " " /\ IsDigit(s[i + 1]) /\ s[i + 1] # "0"
    THEN <<DigitValue(s[i + 1]), i + 2>>
    ELSE <<>>

\* datetime.strptime(since_str, "%Y-%m-%d").date(): the date, or <<>> when
\* ValueError is raised (no match, unconverted data remains, or no such
\* day).
strptime(s) ==
    IF ~(Len(s) >= 5 /\ AllDigits(SubSeq(s, 1, 4)) /\ s[5] = "-") THEN <<>>
    ELSE LET m == MonthAt(s, 6)
         IN  IF m = <<>> THEN <<>>
             ELSE LET d == DayAt(s, m[2])
                  IN  IF d = <<>> THEN <<>>
                      ELSE IF d[2] # Len(s) + 1 THEN <<>>
                      ELSE IF ~IsDate(IntOf(SubSeq(s, 1, 4)), m[1], d[1]) THEN <<>>
                      ELSE <<Date(IntOf(SubSeq(s, 1, 4)), m[1], d[1])>>

UnitChars == {"D", "W", "M", "Y", "d", "w", "m", "y"}

\* unit.upper()
Upper(c) ==
    CASE c = "d" -> "D" [] c = "w" -> "W" [] c = "m" -> "M" [] c = "y" -> "Y" [] OTHER -> c

\* re.match(r"^(\d+)([DWMY])$", since_str, re.IGNORECASE): <<amount, unit>>
\* or <<>>.  `$` also matches before a newline that ends the string.
DurationMatch(s) ==
    LET t == IF s # <<>> /\ s[Len(s)] = "\n" THEN SubSeq(s, 1, Len(s) - 1) ELSE s
    IN  IF Len(t) >= 2 /\ AllDigits(SubSeq(t, 1, Len(t) - 1)) /\ t[Len(t)] \in UnitChars
        THEN <<IntOf(SubSeq(t, 1, Len(t) - 1)), Upper(t[Len(t)])>>
        ELSE <<>>

\* date.today() - relativedelta(<unit>=amount)
Ago(amount, unit) == [today_minus |-> amount, unit |-> unit]

InvalidSinceFormat == Raised("ValueError", "Invalid --since format")

parse_since_flag(since_str) ==
    IF strptime(since_str) # <<>> THEN Returned(strptime(since_str)[1])
    ELSE IF DurationMatch(since_str) # <<>>
    THEN Returned(Ago(DurationMatch(since_str)[1], DurationMatch(since_str)[2]))
    ELSE InvalidSinceFormat

\* The values of --since: dates written with and without padding, with
\* days that do not exist, other separators and trailing characters;
\* durations with and without amount, unit, sign, fraction and trailing
\* newline; and the malformed strings of the tests.
SinceDates ==
    { y \o <<sep>> \o m \o <<sep>> \o d \o t :
        y \in { <<"2", "0", "2", "5">>, <<"2", "0", "2", "4">>, <<"2", "5">> },
        sep \in {"-", "/"},
        m \in { <<"0", "2">>, <<"2">>, <<"1", "2">>, <<"1", "3">>, <<"0", "0">> },
        d \in { <<"2", "8">>, <<"2", "9">>, <<"3", "0">>, <<"3", "1">>, <<"0", "5">>,
                <<"5">>, <<" ", "5">>, <<"0">> },
        t \in { <<>>, <<"\n">>, <<"x">> } }

SinceDurations ==
    { sign \o amount \o unit \o t :
        sign \in { <<>>, <<"-">> },
        amount \in { <<>>, <<"7">>, <<"0", "7">>, <<"3", "0">>, <<"7", ".", "5">> },
        unit \in { <<>>, <<"D">>, <<"W">>, <<"M">>, <<"Y">>, <<"m">>, <<"y">>, <<"X">> },
        t \in { <<>>, <<"\n">> } }

SinceStrings ==
    SinceDates \cup SinceDurations
    \cup { <<"M", "7">>, <<"a", "b", "c">>,
           <<"0", "1", "-", "1", "5", "-", "2", "0", "2", "5">> }

ParseSinceFlag ==
    /\ fn = "parse_since_flag"
    /\ result = Pending
    /\ result' = parse_since_flag(arg)
    /\ UNCHANGED <<fn, arg>>
    /\ UNCHANGED otherThanCalls

CheckSqlFileOrder ==
    /\ fn = "check_sql_file_order"
    /\ result = Pending
    /\ \E at \in {CheckPaths(arg, 1, -1)} :
          result' = IF at = 0 THEN Returned(0) ELSE Raised("ValueError", at)
    /\ UNCHANGED <<fn, arg>>
    /\ UNCHANGED otherThanCalls

IdleCalls ==
    /\ fn = "none"
    /\ arg = <<>>
    /\ result = Pending

StartCalls ==
    /\ result = Pending
    /\ \/ /\ fn = "check_sql_file_order"
          /\ \E S \in SUBSET DOMAIN SqlFiles : arg = Listing(S, 1)
       \/ /\ fn = "remove_null_bytes"
          /\ arg \in [obj : Objects3, escaped : BOOLEAN]
       \/ /\ fn = "parse_since_flag"
          /\ arg \in SinceStrings

NextCalls ==
    \/ CheckSqlFileOrder
    \/ RemoveNullBytes
    \/ ParseSinceFlag

IdleUtils == IdleEmbed /\ IdleCalls

(***************************************************************************)
(* Ingest service: event_handler of register_handlers                      *)
(* (src/ingest/tiger_slack/events.py) and shutdown_handler                 *)
(* (src/ingest/tiger_slack/main.py).  Each delivered event runs its own    *)
(* call of event_handler; the calls interleave at their awaits.            *)
(***************************************************************************)
NumEvents == 2

Events == 1..NumEvents

NoError == "None"

\* What the except clauses of event_handler assign to error.
Errors == {"psycopg.Error", "Exception"}

otherThanEvents == <<importVars, backfillVars, migrateVars, startupVars, storeVars,
                     jobVars, utilsVars, lockVars>>

\* The socket mode handler hands an event to event_handler.
Deliver(e) ==
    /\ ~exited
    /\ hpc[e] = "none"
    /\ hpc' = [hpc EXCEPT ![e] = "ack"]
    /\ UNCHANGED <<acked, routed, insert_event_calls, exited>>
    /\ UNCHANGED otherThanEvents

\* await ack(); error = None; event_router is entered and awaits its
\* connection, transaction and statement.
Ack(e) ==
    /\ ~exited
    /\ hpc[e] = "ack"
    /\ acked' = acked \cup {e}
    /\ hpc' = [hpc EXCEPT ![e] = "event_router"]
    /\ UNCHANGED <<routed, insert_event_calls, exited>>
    /\ UNCHANGED otherThanEvents

\* event_router returns (its transaction committed, or the event is not
\* routed and only logged); finally: insert_event(pool, event, None) starts.
RouterReturns(e) ==
    /\ ~exited
    /\ hpc[e] = "event_router"
    /\ routed' = [routed EXCEPT ![e] = "returned"]
    /\ insert_event_calls' = [insert_event_calls EXCEPT ![e] = Append(@, NoError)]
    /\ hpc' = [hpc EXCEPT ![e] = "insert_event"]
    /\ UNCHANGED <<acked, exited>>
    /\ UNCHANGED otherThanEvents

\* event_router raises and the exception leaves event_handler at once.
RouterRaises_Propagates(e) ==
    /\ ~exited
    /\ hpc[e] = "event_router"
    /\ routed' = [routed EXCEPT ![e] = "raised"]
    /\ hpc' = [hpc EXCEPT ![e] = "raised"]
    /\ UNCHANGED <<acked, insert_event_calls, exited>>
    /\ UNCHANGED otherThanEvents

\* event_router raises (its transaction rolled back): one of the except
\* clauses builds error and logs; finally: insert_event(pool, event, error)
\* starts.
RouterRaises(e) ==
    /\ ~exited
    /\ hpc[e] = "event_router"
    /\ routed' = [routed EXCEPT ![e] = "raised"]
    /\ \E error \in Errors :
          insert_event_calls' = [insert_event_calls EXCEPT ![e] = Append(@, error)]
    /\ hpc' = [hpc EXCEPT ![e] = "insert_event"]
    /\ UNCHANGED <<acked, exited>>
    /\ UNCHANGED otherThanEvents

\* insert_event's transaction commits; event_handler returns.
InsertEventReturns(e) ==
    /\ ~exited
    /\ hpc[e] = "insert_event"
    /\ hpc' = [hpc EXCEPT ![e] = "returned"]
    /\ UNCHANGED <<acked, routed, insert_event_calls, exited>>
    /\ UNCHANGED otherThanEvents

\* insert_event's transaction raises and is rolled back: except Exception
\* inside insert_event logs ("failed to insert event"); event_handler
\* returns.
InsertEventRaises(e) ==
    /\ ~exited
    /\ hpc[e] = "insert_event"
    /\ hpc' = [hpc EXCEPT ![e] = "logged"]
    /\ UNCHANGED <<acked, routed, insert_event_calls, exited>>
    /\ UNCHANGED otherThanEvents

\* SIGINT or SIGTERM: shutdown_handler logs, calls loop.stop() and exit(0).
\* SystemExit is raised where the main thread is; no call of event_handler
\* takes another step of its own.
ShutdownHandler ==
    /\ ~exited
    /\ exited' = TRUE
    /\ UNCHANGED <<hpc, acked, routed, insert_event_calls>>
    /\ UNCHANGED otherThanEvents

IdleEvents ==
    /\ hpc = [e \in Events |-> "returned"]
    /\ acked = {}
    /\ routed = [e \in Events |-> "none"]
    /\ insert_event_calls = [e \in Events |-> <<>>]
    /\ exited = TRUE

\* register_handlers has returned and the socket mode handler is started.
StartEvents ==
    /\ hpc = [e \in Events |-> "none"]
    /\ acked = {}
    /\ routed = [e \in Events |-> "none"]
    /\ insert_event_calls = [e \in Events |-> <<>>]
    /\ exited = FALSE

NextEvents ==
    \E e \in Events :
        \/ Deliver(e)
        \/ Ack(e)
        \/ RouterReturns(e)
        \/ RouterRaises(e)
        \/ InsertEventReturns(e)
        \/ InsertEventRaises(e)

(***************************************************************************)
(* Ingest service: the load_users job (src/ingest/tiger_slack/jobs.py),    *)
(* run by several processes against one database.  load_channels is the    *)
(* same code with CHANNELS_LOCK_KEY and conversations_list.                *)
(***************************************************************************)
NumJobProcs == 2

MaxPages == 2

JobProcs == 1..NumJobProcs

otherThanLock == <<importVars, backfillVars, migrateVars, startupVars, storeVars,
                   jobVars, utilsVars, eventVars>>

\* The connection block of load_users is left: a transaction the connection
\* has open ends, and with it the advisory locks it holds.
ConnectionClosed(p) == IF job_lock = p THEN 0 ELSE job_lock

\* try_lock returns True: pg_try_advisory_xact_lock finds the key free.  On
\* an autocommit connection the statement is a transaction of its own, and
\* the lock is released when the statement ends; otherwise the statement
\* opens the connection's transaction, which keeps the lock.
TryLock(p) ==
    /\ lpc[p] = "try_lock"
    /\ job_lock = 0
    /\ job_lock' = IF autocommit THEN 0 ELSE p
    /\ lpc' = [lpc EXCEPT ![p] = "users_list"]
    /\ UNCHANGED <<autocommit, cursor>>
    /\ UNCHANGED otherThanLock

\* try_lock returns False: load_users returns.
TryLockBusy(p) ==
    /\ lpc[p] = "try_lock"
    /\ job_lock # 0
    /\ lpc' = [lpc EXCEPT ![p] = "returned"]
    /\ UNCHANGED <<autocommit, job_lock, cursor>>
    /\ UNCHANGED otherThanLock

\* One turn of `while True`: client.users_list returns a page, each member
\* is upserted in a con.transaction() of its own, and the response names a
\* next_cursor (continue) or none (break, the connection block is left).
UsersList(p) ==
    /\ lpc[p] = "users_list"
    /\ \/ /\ cursor[p] < MaxPages
          /\ cursor' = [cursor EXCEPT ![p] = @ + 1]
          /\ UNCHANGED <<lpc, job_lock>>
       \/ /\ lpc' = [lpc EXCEPT ![p] = "returned"]
          /\ job_lock' = ConnectionClosed(p)
          /\ UNCHANGED cursor
    /\ UNCHANGED autocommit
    /\ UNCHANGED otherThanLock

\* users_list or an upsert raises: the connection block is left and
\* `except Exception` logs ("failed to load users").
UsersListRaises(p) ==
    /\ lpc[p] = "users_list"
    /\ lpc' = [lpc EXCEPT ![p] = "logged"]
    /\ job_lock' = ConnectionClosed(p)
    /\ UNCHANGED <<autocommit, cursor>>
    /\ UNCHANGED otherThanLock

IdleLock ==
    /\ autocommit = TRUE
    /\ job_lock = 0
    /\ lpc = [p \in JobProcs |-> "returned"]
    /\ cursor = [p \in JobProcs |-> 0]

\* Every process calls load_users with a connection of its pool: the pool
\* of main.py (configure sets autocommit) or the pool of jobs.py run as a
\* script (no configure: psycopg's default, autocommit off).
StartLock ==
    /\ autocommit \in BOOLEAN
    /\ job_lock = 0
    /\ lpc = [p \in JobProcs |-> "try_lock"]
    /\ cursor = [p \in JobProcs |-> 0]

NextLock ==
    \E p \in JobProcs :
        \/ TryLock(p)
        \/ TryLockBusy(p)
        \/ UsersList(p)
        \/ UsersListRaises(p)

IdleService == IdleEvents /\ IdleLock

(***************************************************************************)
(* The import worker pool of the service package                           *)
(* (src/ingest/tiger_slack/import.py): process_file_worker without         *)
(* embeddings.  It runs on the variables of the import worker pool.        *)
(* message_buffer is created as a list (`= []`) and `+=` keeps it a list,  *)
(* which has no popleft: the first turn of the batching loop raises        *)
(* AttributeError.  The try statement has a finally clause and no except   *)
(* clause.                                                                 *)
(***************************************************************************)
\* An exception leaves process_file_worker: the task of worker w fails.
WorkerRaises(w) == pc' = [pc EXCEPT ![w] = "raised"]

\* item is a file, read and parsed; it adds no message and the buffer is
\* empty: the batching loop is not entered, the batch is below
\* DESIRED_BATCH_SIZE, and the worker goes back to file_queue.get().
ReadFile(w) ==
    /\ pc[w] = "get"
    /\ file_queue # <<>>
    /\ Head(file_queue) # None
    /\ message_buffer[w] = <<>>
    /\ Len(current_message_batch[w]) < DESIRED_BATCH_SIZE
    /\ file_queue' = Tail(file_queue)
    /\ item' = [item EXCEPT ![w] = Head(file_queue)]
    /\ yielded' = [yielded EXCEPT ![Head(file_queue)[1]] = <<>>]
    /\ token_count' = [token_count EXCEPT ![w] = 0]
    /\ UNCHANGED <<pc, message_buffer, current_message_batch, flushed>>
    /\ UNCHANGED otherThanImport

\* item is a file, read and parsed; its messages are added to the buffer,
\* and message_buffer.popleft() raises AttributeError.
PopleftRaises(w) ==
    /\ pc[w] = "get"
    /\ file_queue # <<>>
    /\ Head(file_queue) # None
    /\ LET f == Head(file_queue)[1] IN
       \E content \in FileContents \ {<<>>} :
          /\ yielded' = [yielded EXCEPT ![f] = content]
          /\ message_buffer' = [message_buffer EXCEPT ![w] = @ \o Messages(f, content)]
    /\ file_queue' = Tail(file_queue)
    /\ item' = [item EXCEPT ![w] = Head(file_queue)]
    /\ token_count' = [token_count EXCEPT ![w] = 0]
    /\ WorkerRaises(w)
    /\ UNCHANGED <<current_message_batch, flushed>>
    /\ UNCHANGED otherThanImport

\* item is a file; aiofiles.open, f.read or json.loads raises.
ReadFileRaises(w) ==
    /\ pc[w] = "get"
    /\ file_queue # <<>>
    /\ Head(file_queue) # None
    /\ file_queue' = Tail(file_queue)
    /\ item' = [item EXCEPT ![w] = Head(file_queue)]
    /\ WorkerRaises(w)
    /\ UNCHANGED <<yielded, message_buffer, current_message_batch, token_count, flushed>>
    /\ UNCHANGED otherThanImport

\* item is None: break; the rest of batch and buffer, if any, is passed to
\* insert_messages, and the worker returns.
Break(w) ==
    /\ pc[w] = "get"
    /\ file_queue # <<>>
    /\ Head(file_queue) = None
    /\ file_queue' = Tail(file_queue)
    /\ item' = [item EXCEPT ![w] = None]
    /\ LET remaining_messages == current_message_batch[w] \o message_buffer[w]
       IN  flushed' = [flushed EXCEPT ![w] =
                          IF Len(remaining_messages) > 0
                          THEN Append(@, remaining_messages) ELSE @]
    /\ pc' = [pc EXCEPT ![w] = "done"]
    /\ UNCHANGED <<yielded, message_buffer, current_message_batch, token_count>>
    /\ UNCHANGED otherThanImport

\* A task of the TaskGroup has failed: the group cancels worker w, which is
\* waiting in file_queue.get().
TaskGroupCancels(w) ==
    /\ pc[w] = "get"
    /\ \E v \in Workers : pc[v] = "raised"
    /\ pc' = [pc EXCEPT ![w] = "cancelled"]
    /\ UNCHANGED <<file_queue, yielded, item, message_buffer,
                   current_message_batch, token_count, flushed>>
    /\ UNCHANGED otherThanImport

NextServiceImport ==
    \E w \in Workers :
        \/ ReadFile(w)
        \/ PopleftRaises(w)
        \/ ReadFileRaises(w)
        \/ Break(w)
        \/ TaskGroupCancels(w)

(***************************************************************************)
(* Specifications.                                                         *)
(***************************************************************************)
InitImport == StartImport /\ IdleBackfill /\ IdleMigrate /\ IdleStartup /\ IdleStore /\ IdleJob /\ IdleUtils /\ IdleService

NextImport == \E w \in Workers : WorkerStep(w)

\* Every behaviour of the pool: any file content, reads and flushes may raise.
SpecImport == InitImport /\ [][NextImport]_vars

\* The pool with every message below the budget and a store that accepts every
\* write; the event loop does not stop while some task can run.
NextImportReliable == \E w \in Workers : WorkerReliable(w)

SpecImportLive ==
    InitImport /\ [][NextImportReliable]_vars /\ WF_vars(NextImportReliable)

\* The pool on the end-to-end batching case.
InitCase == StartCase /\ IdleBackfill /\ IdleMigrate /\ IdleStartup /\ IdleStore /\ IdleJob /\ IdleUtils /\ IdleService

NextCase == \E w \in Workers : WorkerCase(w)

SpecCase == InitCase /\ [][NextCase]_vars

\* Two batches written to slack.message in any order, any number of times.
InitStore == IdleImport /\ IdleBackfill /\ IdleMigrate /\ IdleStartup /\ StartStore /\ IdleJob /\ IdleUtils /\ IdleService

SpecStore == InitStore /\ [][NextStore]_vars

\* One copy job from its start, the process stopping at any point and being
\* started again with --resume.
InitJob == IdleImport /\ IdleBackfill /\ IdleMigrate /\ IdleStartup /\ IdleStore /\ StartJob /\ IdleUtils /\ IdleService

SpecJob == InitJob /\ [][NextJob]_vars

\* Processes running the backfill script against one table, statements and
\* commits failing at will.
InitBackfill == IdleImport /\ StartBackfill /\ IdleMigrate /\ IdleStartup /\ IdleStore /\ IdleJob /\ IdleUtils /\ IdleService

SpecBackfill == InitBackfill /\ [][NextBackfill]_vars

\* The same, and a process may be killed at any point and its script run
\* again.
NextBackfillCrash == NextBackfill \/ \E p \in Procs : Crash(p)

SpecBackfillCrash == InitBackfill /\ [][NextBackfillCrash]_vars

\* Processes starting migrate_db against one database, any statement failing
\* at will.
InitMigrate == IdleImport /\ IdleBackfill /\ StartMigrate /\ IdleStartup /\ IdleStore /\ IdleJob /\ IdleUtils /\ IdleService

SpecMigrate == InitMigrate /\ [][NextMigrate]_vars

\* Processes of different package versions starting migrate_db against one
\* database whose script directories are in order and which accepts every
\* statement.
InitMigrateTargets == IdleImport /\ IdleBackfill /\ StartMigrateTargets /\ IdleStartup /\ IdleStore /\ IdleJob /\ IdleUtils /\ IdleService

\* migrate_db against a store that accepts every statement: a run fails only
\* by its own version check or by running out of lock attempts.
NextMigrateTargets ==
    \E p \in Migrators :
        \/ LockAcquired(p)
        \/ LockBusy(p)
        \/ LockExhausted(p)
        \/ InstallSql(p)
        \/ RunInit(p)
        \/ NoMigrationRequired(p)
        \/ Downgrade(p)
        \/ MigrationRequired(p)
        \/ IncrementalSql(p)
        \/ IdempotentSql(p)
        \/ SetVersion(p)
        \/ Commit(p)

SpecMigrateTargets == InitMigrateTargets /\ [][NextMigrateTargets]_vars

\* One call of add_message_embeddings on any list of up to MaxMessages
\* messages, the embedder failing at will.
InitEmbed == IdleImport /\ IdleBackfill /\ IdleMigrate /\ IdleStartup /\ IdleStore /\ IdleJob /\ StartEmbed /\ IdleCalls /\ IdleService

SpecEmbed == InitEmbed /\ [][NextEmbed]_vars

\* Events handled by the ingest service, any statement failing at will.
InitEvents == IdleImport /\ IdleBackfill /\ IdleMigrate /\ IdleStartup /\ IdleStore /\ IdleJob /\ IdleUtils /\ StartEvents /\ IdleLock

SpecEvents == InitEvents /\ [][NextEvents]_vars

\* The same, with SIGINT or SIGTERM arriving at any moment.
SpecService == InitEvents /\ [][NextEvents \/ ShutdownHandler]_vars

\* Processes running load_users against one database.
InitLock == IdleImport /\ IdleBackfill /\ IdleMigrate /\ IdleStartup /\ IdleStore /\ IdleJob /\ IdleUtils /\ IdleEvents /\ StartLock

SpecLock == InitLock /\ [][NextLock]_vars

\* The worker pool of the service package's import, any file content, reads
\* failing at will.
SpecServiceImport == InitImport /\ [][NextServiceImport]_vars

\* One call of a pure function on an argument drawn from its input set.
InitCalls == IdleImport /\ IdleBackfill /\ IdleMigrate /\ IdleStartup /\ IdleStore /\ IdleJob /\ IdleEmbed /\ StartCalls /\ IdleService

SpecCalls == InitCalls /\ [][NextCalls]_vars

\* One application process from its start: migrate_db against a database a
\* peer may be migrating, any statement failing at will, then the pool and
\* the import workers or the event handlers.  The import is followed with a
\* store that accepts every batch.
InitStartup == IdleImport /\ IdleBackfill /\ StartStartup /\ IdleStore /\ IdleJob /\ IdleUtils /\ IdleService

SpecStartup ==
    InitStartup /\ [][NextMigrate \/ NextStartup \/ NextImportReliable]_vars

(***************************************************************************)
(* Import worker pool: properties.                                         *)
(***************************************************************************)
AllDone == \A w \in Workers : pc[w] = "done"     \* the TaskGroup has completed

YieldedMsgs ==
    UNION { Range(Messages(f, yielded[f])) : f \in DOMAIN yielded }

\* Every message committed so far, by any worker, with repetitions.
RECURSIVE FlushedUpTo(_)
FlushedUpTo(w) == IF w = 0 THEN <<>> ELSE FlushedUpTo(w - 1) \o Flatten(flushed[w])

AllFlushed == FlushedUpTo(NumWorkers)

NoDuplicates(s) == Cardinality(Range(s)) = Len(s)

C2_BatchBelowBudget ==
    \A w \in Workers :
        /\ Tokens(current_message_batch[w]) = token_count[w]
        /\ Tokens(current_message_batch[w]) < MAX_TOKENS_PER_EMBEDDING_REQUEST
        /\ \A i \in DOMAIN flushed[w] :
              Tokens(flushed[w][i]) < MAX_TOKENS_PER_EMBEDDING_REQUEST

\* A batch that fills the budget to the last token was committed while the
\* message that did not fit waits at the buffer front.
C2_Witness ==
    \E w \in Workers : \E i \in DOMAIN flushed[w] :
        /\ Tokens(flushed[w][i]) = MAX_TOKENS_PER_EMBEDDING_REQUEST - 1
        /\ message_buffer[w] # <<>>
        /\ Head(message_buffer[w]).tokens = 1

\* C7: a worker does not go round the cycle "pop the message, fail to admit
\* it, push it back, flush": when it is about to flush an empty batch because
\* the message at the buffer front alone costs the budget or more, it has not
\* already flushed an empty batch for it.
C7_OversizedItemRejected ==
    \A w \in Workers :
        ( /\ pc[w] = "flush"
          /\ current_message_batch[w] = <<>>
          /\ message_buffer[w] # <<>>
          /\ Head(message_buffer[w]).tokens >= MAX_TOKENS_PER_EMBEDDING_REQUEST )
        => EmptyFlushes(w) = 0

\* C8: with every message below the budget and a store that accepts every
\* write, the pool terminates: eventually and for good all workers have
\* exited, the queue is empty, nothing is left buffered and every message
\* that a file yielded has been committed.
PoolCompleted ==
    /\ AllDone
    /\ file_queue = <<>>
    /\ \A w \in Workers : current_message_batch[w] = <<>> /\ message_buffer[w] = <<>>
    /\ Range(AllFlushed) = YieldedMsgs
    /\ NoDuplicates(AllFlushed)

C8_PoolTerminates == <>[]PoolCompleted

\* The pool has completed after reading two files that yielded messages.
C8_Witness ==
    /\ PoolCompleted
    /\ DOMAIN yielded = 1..2
    /\ \A f \in DOMAIN yielded : Len(yielded[f]) >= 2

(***************************************************************************)
(* Backfill: properties.                                                   *)
(***************************************************************************)
\* C3: at every moment the row sets claimed by two different in-flight backfill
\* transactions are disjoint, whichever processes and workers, fast path or
\* slow path, they belong to.
C3_ClaimsDisjoint ==
    \A t1 \in Tasks, t2 \in Tasks : t1 # t2 => claimed[t1] \cap claimed[t2] = {}

\* Transactions of two different processes hold rows at the same time.
C3_Witness ==
    \E t1 \in Tasks, t2 \in Tasks :
        /\ t1[1] # t2[1]
        /\ claimed[t1] # {}
        /\ claimed[t2] # {}

\* Every run_backfill and every slow-path worker has ended, without a fault of
\* the store.
BackfillRunsEnded ==
    /\ \A p \in Procs : ppc[p] \in {"done", "raised_phase2"}
    /\ \A p \in Procs, w \in SlowWorkers : wpc[p][w] \in {"idle", "returned", "raised"}

\* C4: when the run has ended, every row that matched the slow-path predicate
\* has been processed, its searchable_content written and committed.
C4_SlowRowsAllProcessed ==
    BackfillRunsEnded => \A r \in Rows : table[r].att => ~Unprocessed(r)

\* The step in which transaction t ends with an error after it claimed rows.
AbortStep(t) ==
    /\ claimed[t] # {}
    /\ IF t[2] = 0
       THEN ppc[t[1]] = "phase1_commit" /\ ppc'[t[1]] = "raised_phase1"
       ELSE wpc[t[1]][t[2]] = "claimed" /\ wpc'[t[1]][t[2]] = "raised"

\* C9: an error in a backfill transaction that has claimed rows rolls the
\* whole transaction back: no row of the table changes, the claimed rows are
\* released and every one of them still matches the unprocessed predicate.
C9_ErrorRollsBackClaim ==
    [][\A t \in Tasks :
          AbortStep(t) =>
              /\ table' = table
              /\ claimed'[t] = {}
              /\ \A r \in claimed[t] : table'[r].searchable_content = NULL]_vars

\* A slow-path worker raised after claiming the only row with attachments, so
\* that gather raised in run_backfill; the row is unprocessed and unlocked.
C9_Witness ==
    /\ \E p \in Procs, w \in SlowWorkers : wpc[p][w] = "raised" /\ ppc[p] = "raised_phase2"
    /\ Cardinality({r \in Rows : table[r].att}) = 1
    /\ \A r \in Rows : table[r].att => Unprocessed(r) /\ NotLocked(r)

\* The step in which transaction t commits.
CommitStep(t) ==
    /\ t[2] = 0
    /\ ppc[t[1]] = "phase1_commit"
    /\ ppc'[t[1]] = "phase1_remaining"

\* C10: after a backfill transaction commits, none of the rows it claimed
\* matches searchable_content IS NULL, whatever the rows contain.
C10_CommittedRowsLeavePredicate ==
    [][\A t \in Tasks :
          CommitStep(t) => \A r \in claimed[t] : table'[r].searchable_content # NULL]_vars

\* No statement or commit of the fast path was made to fail.
NoStoreFault == \A p \in Procs : ppc[p] # "raised_phase1"

\* C11: with no processing error, a slow-path worker stops only when a claim
\* of its own returned zero rows, and once every run_backfill and every worker
\* has stopped, no row matches the slow-path unprocessed predicate.
C11_WorkersStopOnEmptyClaim ==
    NoStoreFault =>
        /\ \A p \in Procs, w \in SlowWorkers : wpc[p][w] # "raised"
        /\ BackfillRunsEnded => \A r \in Rows : ~SlowPredicate(r)

\* C12: a row committed once is never written again, and when the runs have
\* ended after a process was killed and started again, with no other fault,
\* every row is processed.
C12_RestartCompletes ==
    [][/\ \A r \in Rows : ~Unprocessed(r) => table'[r] = table[r]
       /\ (NoStoreFault' /\ BackfillRunsEnded' /\ \E p \in Procs : crashes'[p] > 0) =>
              \A r \in Rows : table'[r].searchable_content # NULL]_vars

\* C13: when a claimed batch of a slow-path worker fails, only the batch is
\* aborted: the worker is at the head of its claim loop again and
\* run_backfill goes on waiting for its workers.
C13_FailedBatchIsRetried ==
    [][\A p \in Procs, w \in SlowWorkers :
          AbortStep(SlowTask(p, w)) => wpc'[p][w] = "claim" /\ ppc'[p] = ppc[p]]_vars

(***************************************************************************)
(* Migration runner: properties.                                           *)
(***************************************************************************)
IsScript(s) == s[1] \in {"incremental", "idempotent", "set_version"}

\* The processes that committed the version update.
Migrated == {p \in Migrators : Stmt("set_version", target_version[p]) \in Range(committed[p])}

\* The processes that are running scripts or the version update.
Migrating == {p \in Migrators : mpc[p] \in {"incremental", "idempotent", "set_version"}}

\* C5: of the processes started together with one target, at most one commits
\* the scripts and the version update; a process runs scripts only while the
\* stored version is below the target and nobody has committed the update, so
\* whoever gets the lock later runs none; no other process commits a script;
\* and when all of them have returned from a store that was below the target,
\* exactly one has migrated and the stored version is the target.
C5_MigratedByExactlyOne ==
    /\ Cardinality(Migrated) <= 1
    /\ \A p \in Migrating : Migrated = {} /\ db_version < target_version[p]
    /\ \A p \in Migrators \ Migrated : \A i \in DOMAIN committed[p] : ~IsScript(committed[p][i])
    /\ \A p \in Migrators \ Migrated : mpc[p] = "done" /\ Migrated # {} =>
           \A i \in DOMAIN tx[p] : ~IsScript(tx[p][i])
    /\ \A p \in Migrators :
           (start_version < target_version[p] /\ \A q \in Migrators : mpc[q] = "done") =>
               Cardinality(Migrated) = 1 /\ db_version = target_version[p]

\* Every process has returned; one of them migrated, another one took the
\* lock after that and committed its transaction without a script.
C5_Witness ==
    /\ \A p \in Migrators : start_version < target_version[p]
    /\ \A p \in Migrators : mpc[p] = "done"
    /\ \E p \in Migrated : Len(committed[p]) >= 5
    /\ \E q \in Migrators \ Migrated : Stmt("init", 0) \in Range(committed[q])

\* C6 as stated: a run of migrate_db that failed has committed nothing.
C6_FailedRunCommittedNothing ==
    \A p \in Migrators : mpc[p] = "failed" => committed[p] = <<>>

InInstall(pos) == pos \in {"install_lock", "install_sql", "install_commit"}

\* C6: a run of migrate_db that failed has committed nothing of the
\* transaction that failed: no init, no script, no version update.  All that
\* can remain of the run is the timescaledb statement, which the ingest
\* runner's install_timescaledb committed in its own earlier transaction.
C6_FailedRunKeepsOnlyInstall ==
    \A p \in Migrators :
        mpc[p] = "failed" =>
            /\ tx[p] = <<>>
            /\ lock_holder # p
            /\ committed[p] = IF runner = "ingest" /\ ~InInstall(raised_at[p])
                              THEN <<Stmt("timescaledb", 0)>>
                              ELSE <<>>

\* A run of the ingest runner failed at the version update, after init and
\* every script had run in its transaction; the stored version is the one the
\* run started from and only the timescaledb statement is left of the run.
C6_Witness ==
    /\ runner = "ingest"
    /\ \E p \in Migrators :
          /\ mpc[p] = "failed"
          /\ raised_at[p] = "set_version"
          /\ committed[p] = <<Stmt("timescaledb", 0)>>
    /\ db_version = start_version

\* The positions between a successful try_migration_lock and the end of the
\* enclosing transaction.
HoldsLock(p) ==
    mpc[p] \in {"install_sql", "install_commit", "init", "check", "incremental",
                "idempotent", "set_version", "commit"}

\* C14: at most one process is between a successful try_migration_lock and
\* the end of its transaction, and that process is the holder of the advisory
\* lock for all of that time; the lock is free when no process is there.
C14_OneLockHolder ==
    /\ Cardinality({p \in Migrators : HoldsLock(p)}) <= 1
    /\ \A p \in Migrators : HoldsLock(p) <=> lock_holder = p
    /\ lock_holder \in Migrators \cup {0}

\* One process is running its incremental scripts under the lock while
\* another has been refused the lock.
C14_Witness ==
    \E p \in Migrators, q \in Migrators :
        /\ p # q
        /\ mpc[p] = "incremental"
        /\ lock_holder = p
        /\ InLockLoop(q)
        /\ attempts[q] > 0

\* The step in which p commits its migration transaction.
CommitsMigration(p) == mpc[p] = "commit" /\ mpc'[p] = "done"

\* C15: the stored version never decreases: whatever the targets of the
\* processes and however they interleave, every change of slack.version is
\* made by the commit of a transaction that ran set_version, and sets it to
\* that process's target, which is greater than the version stored before.
C15_VersionNeverDecreases ==
    [][/\ db_version' >= db_version
       /\ db_version' # db_version =>
              \E p \in Migrators :
                  /\ CommitsMigration(p)
                  /\ Stmt("set_version", target_version[p]) \in Range(tx[p])
                  /\ db_version' = target_version[p]
                  /\ target_version[p] > db_version
       /\ \A p \in Migrators :
              (CommitsMigration(p) /\ target_version[p] <= db_version) =>
                  db_version' = db_version]_vars

\* One process has raised the stored version, and another, whose target is
\* the older version, was refused by the version check after that.
C15_Witness ==
    /\ db_version > start_version
    /\ \E p \in Migrators :
          /\ mpc[p] = "failed"
          /\ raised_at[p] = "check"
          /\ target_version[p] < db_version
          /\ target_version[p] >= start_version

NoScriptIn(stmts) == \A i \in DOMAIN stmts : ~IsScript(stmts[i])

\* C16: a run of migrate_db that finds the stored version equal to its target
\* (a restart after a successful migration) is a no-op: from the version
\* check it goes straight to the commit, it has executed no incremental
\* script, no idempotent script and no version update, and its commit leaves
\* the row of slack.version as it is and releases the lock.
C16_RestartIsNoOp ==
    [][\A p \in Migrators :
          /\ (mpc[p] = "check" /\ target_version[p] = db_version
                 /\ mpc'[p] \notin {"check", "failed"}) =>
                 mpc'[p] = "commit" /\ tx'[p] = tx[p] /\ NoScriptIn(tx[p])
          /\ (CommitsMigration(p) /\ target_version[p] = db_version) =>
                 /\ NoScriptIn(tx[p])
                 /\ NoScriptIn(committed'[p])
                 /\ db_version' = db_version
                 /\ lock_holder' = 0]_vars

\* The store was at the target from the start; every process has run
\* migrate_db to its end, committing init and nothing else of the migration,
\* and the lock is free.
C16_Witness ==
    /\ \A p \in Migrators :
          /\ start_version = target_version[p]
          /\ mpc[p] = "done"
          /\ committed[p][Len(committed[p])] = Stmt("init", 0)
    /\ db_version = start_version
    /\ lock_holder = 0

\* The step in which p leaves the version check with a target below the
\* stored version.
DowngradeStep(p) ==
    /\ mpc[p] = "check"
    /\ target_version[p] < db_version
    /\ mpc'[p] # "check"

\* C17 as stated: when the downgrade error is raised, the process has not
\* taken the advisory lock and has neither executed nor committed any
\* statement.
C17_DowngradeBeforeLockWork ==
    [][\A p \in Migrators :
          DowngradeStep(p) =>
              /\ mpc'[p] = "failed"
              /\ lock_holder # p
              /\ tx[p] = <<>>
              /\ committed[p] = <<>>]_vars

\* C17: a run whose target is below the stored version fails at the version
\* check, which it makes holding the advisory lock and after init has been
\* executed in its transaction; no script and no version update has run, the
\* transaction is rolled back, the stored version is unchanged and the lock
\* is released.  Nothing of the run is committed except, in the ingest
\* runner, the timescaledb statement of the earlier install transaction.
C17_DowngradeRaisesAtCheck ==
    [][\A p \in Migrators :
          DowngradeStep(p) =>
              /\ mpc'[p] = "failed"
              /\ lock_holder = p
              /\ tx[p] = <<Stmt("init", 0)>>
              /\ tx'[p] = <<>>
              /\ committed'[p] = committed[p]
              /\ committed[p] = IF runner = "ingest" THEN <<Stmt("timescaledb", 0)>> ELSE <<>>
              /\ db_version' = db_version
              /\ lock_holder' = 0]_vars

\* A run was refused at the version check: its target is below the stored
\* version, the lock is free again and the version is the one it found.
C17_Witness ==
    \E p \in Migrators :
        /\ mpc[p] = "failed"
        /\ raised_at[p] = "check"
        /\ target_version[p] < db_version
        /\ db_version = start_version
        /\ lock_holder = 0

\* The step in which check_sql_file_order raises in p's run, for the
\* incremental directory or for the idempotent one.
ValidationRaises(p) ==
    /\ mpc'[p] = "failed"
    /\ \/ /\ mpc[p] = "check"
          /\ target_version[p] > db_version
          /\ ~check_sql_file_order(paths.incremental)
       \/ /\ mpc[p] = "incremental"
          /\ script_k[p] = Len(paths.incremental)
          /\ ~check_sql_file_order(paths.idempotent)

\* C18: when a script directory has a gap in its numbers, the validation
\* error is raised before any script of either directory has been executed.
C18_ValidationBeforeAnyScript ==
    [][\A p \in Migrators :
          ValidationRaises(p) =>
              \A i \in DOMAIN tx[p] : tx[p][i][1] \notin {"incremental", "idempotent"}]_vars

\* p takes a step of its lock retry loop.
LockLoopStep(p) ==
    /\ InLockLoop(p)
    /\ mpc'[p] # mpc[p] \/ attempts'[p] # attempts[p]

\* C19: the retry loop sleeps at most MAX_LOCK_ATTEMPTS - 1 times, once after
\* each refused attempt but the last; an attempt that finds the lock free ends
\* the loop with the lock held; the MAX_LOCK_ATTEMPTS-th refusal raises
\* without another sleep, and a run that failed in the loop is over: it has
\* executed and committed no script and goes no further.
C19_LockAttemptsBounded ==
    [][\A p \in Migrators :
          /\ attempts'[p] \in 0..(MAX_LOCK_ATTEMPTS - 1)
          /\ (LockLoopStep(p) /\ mpc'[p] # "failed") =>
                 IF try_migration_lock
                 THEN lock_holder' = p /\ ~InLockLoop(p)'
                 ELSE /\ attempts[p] + 1 < MAX_LOCK_ATTEMPTS
                      /\ attempts'[p] = attempts[p] + 1
                      /\ mpc'[p] = mpc[p]
          /\ (LockLoopStep(p) /\ ~try_migration_lock
                 /\ attempts[p] + 1 = MAX_LOCK_ATTEMPTS) =>
                 /\ mpc'[p] = "failed"
                 /\ attempts'[p] = attempts[p]
          /\ (mpc[p] = "failed" /\ raised_at[p] \in {"install_lock", "lock"}) =>
                 /\ mpc'[p] = "failed"
                 /\ NoScriptIn(committed[p])
                 /\ tx[p] = <<>>]_vars

\* A run gave up in the retry loop of migrate_db after MAX_LOCK_ATTEMPTS - 1
\* sleeps while another process held the lock in its script phase.
C19_Witness ==
    \E p \in Migrators, q \in Migrators :
        /\ mpc[p] = "failed"
        /\ raised_at[p] = "lock"
        /\ attempts[p] = MAX_LOCK_ATTEMPTS - 1
        /\ lock_holder = q
        /\ mpc[q] \in {"incremental", "idempotent", "set_version"}

\* The statements of a migration by p, in the order of migrate_db: init, the
\* incremental scripts, the idempotent scripts, the version update.
MigrationStatements(p) ==
    <<Stmt("init", 0)>>
    \o [i \in 1..Len(paths.incremental) |-> Stmt("incremental", paths.incremental[i])]
    \o [i \in 1..Len(paths.idempotent) |-> Stmt("idempotent", paths.idempotent[i])]
    \o <<Stmt("set_version", target_version[p])>>

IsPrefix(a, b) == Len(a) <= Len(b) /\ \A i \in 1..Len(a) : a[i] = b[i]

Ascending(ps) == \A i \in 1..Len(ps), j \in 1..Len(ps) : i < j => ps[i] < ps[j]

InMigrationTransaction(p) ==
    mpc[p] \in {"init", "check", "incremental", "idempotent", "set_version", "commit"}

\* C20: what a process has executed in its migration transaction is always
\* an initial part of: init, every incremental script in ascending number
\* order, every idempotent script in ascending number order, the version
\* update.  It holds the lock throughout, the new version is not stored before
\* the commit, it commits scripts only together with all of them and the
\* version update, and the commit stores the version and releases the lock.
C20_ScriptsInOrder ==
    /\ Ascending(paths.incremental) /\ Ascending(paths.idempotent)
    /\ \A p \in Migrators :
          /\ InMigrationTransaction(p) =>
                 /\ IsPrefix(tx[p], MigrationStatements(p))
                 /\ lock_holder = p
                 /\ ~NoScriptIn(tx[p]) => db_version < target_version[p]
          /\ mpc[p] = "set_version" =>
                 Len(tx[p]) = Len(MigrationStatements(p)) - 1
          /\ (mpc[p] = "commit" /\ ~NoScriptIn(tx[p])) =>
                 tx[p] = MigrationStatements(p)
          /\ ~NoScriptIn(committed[p]) =>
                 /\ \E pre \in {<<>>, <<Stmt("timescaledb", 0)>>} :
                        committed[p] = pre \o MigrationStatements(p)
                 /\ db_version >= target_version[p]
                 /\ lock_holder # p

\* A process holding the lock has run init, two incremental scripts, two
\* idempotent scripts and the version update, and is about to commit.
C20_Witness ==
    \E p \in Migrators :
        /\ mpc[p] = "commit"
        /\ lock_holder = p
        /\ Len(tx[p]) = 6
        /\ tx[p] = MigrationStatements(p)
        /\ db_version < target_version[p]

\* C21: every run of migrate_db that completes has applied every idempotent
\* script, also when the stored version already equals the target.
C21_IdempotentOnEveryStartup ==
    \A p \in Migrators :
        mpc[p] = "done" =>
            \A i \in 1..Len(paths.idempotent) :
                Stmt("idempotent", paths.idempotent[i]) \in Range(committed[p])

\* The pool is open, a file or sentinel is in the queue, a worker has taken
\* something from it, or the event handlers are registered.
IngestionStarted ==
    \/ spc \in {"pool", "load_messages", "handlers"}
    \/ ~IdleImport

\* C22: no ingestion work starts before the migration has finished.  While
\* migrate_db of the application process has not returned, and for ever once
\* it has raised, no pool is open, the queue is empty, no worker has read
\* it and no handler is registered; a file is in the queue or taken from it
\* only in run_import after the pool was opened, and handlers are registered
\* only in main after the pool was opened.
C22_NoIngestionBeforeMigration ==
    /\ IngestionStarted =>
          /\ mpc[AppProc] = "done"
          /\ raised_at[AppProc] = "none"
          /\ tx[AppProc] = <<>>
          /\ lock_holder # AppProc
    /\ mpc[AppProc] = "failed" => spc \in {"migrate_db", "raised"}
    /\ ~IdleImport => (app = "run_import" /\ spc = "load_messages")
    /\ spc = "handlers" => app = "main"

\* run_import migrated the database, opened the pool and a worker has flushed
\* a batch of a file it took from the queue.
C22_Witness ==
    /\ app = "run_import"
    /\ spc = "load_messages"
    /\ AppProc \in Migrated
    /\ \E w \in Workers : flushed[w] # <<>>

\* Worker w takes a file from the queue and the file adds no message: its
\* read, parse or filter raised (or it held nothing).
ReadFailedStep(w) ==
    /\ pc[w] = "get"
    /\ file_queue # <<>>
    /\ Head(file_queue) # None
    /\ file_queue' = Tail(file_queue)
    /\ item'[w] = Head(file_queue)
    /\ yielded' = yielded

\* C23: an exception while reading, parsing or filtering one file does not
\* end the worker or any other worker: the worker stays in its loop (at the
\* flush of its open batch or back at the queue), the messages it had
\* buffered or batched from earlier files are all still there in their
\* order, nothing committed is changed, and every other worker is where it
\* was with what it had.
C23_ReadErrorIsolated ==
    [][\A w \in Workers :
          ReadFailedStep(w) =>
              /\ pc'[w] \in {"get", "flush"}
              /\ current_message_batch'[w] \o message_buffer'[w]
                    = current_message_batch[w] \o message_buffer[w]
              /\ token_count'[w] = Tokens(current_message_batch'[w])
              /\ flushed' = flushed
              /\ \A v \in Workers \ {w} :
                    /\ pc'[v] = pc[v]
                    /\ message_buffer'[v] = message_buffer[v]
                    /\ current_message_batch'[v] = current_message_batch[v]]_vars

\* A worker holding a message of file 1 in its open batch took file 2, which
\* added nothing, and is back at the queue with that message still batched.
C23_Witness ==
    \E w \in Workers :
        /\ item[w] = File(2)
        /\ yielded[2] = <<>>
        /\ pc[w] = "get"
        /\ current_message_batch[w] # <<>>
        /\ \A i \in DOMAIN current_message_batch[w] : current_message_batch[w][i].file = 1

\* C24: a worker that has taken its sentinel does not read the queue again:
\* from the flush that follows the sentinel it goes on flushing or returns,
\* never back to file_queue.get(), and a worker that returned stays returned.
C24_OneSentinelPerWorker ==
    [][\A w \in Workers :
          /\ (pc[w] = "flush" /\ item[w] = None) => pc'[w] \in {"flush", "done"}
          /\ pc[w] = "done" => pc'[w] = "done"]_vars

\* Every message worker w has taken in, in the order it leaves the worker:
\* the flushed batches in flush order, then the open batch, then the buffer.
WorkerStream(w) ==
    Flatten(flushed[w]) \o current_message_batch[w] \o message_buffer[w]

FilesOf(w) == {WorkerStream(w)[i].file : i \in DOMAIN WorkerStream(w)}

\* The filtered messages of the files of F numbered f and up, in queue order
\* and file order.
RECURSIVE MessagesOfFiles(_, _)
MessagesOfFiles(F, f) ==
    IF f > Len(yielded) THEN <<>>
    ELSE (IF f \in F THEN Messages(f, yielded[f]) ELSE <<>>) \o MessagesOfFiles(F, f + 1)

CaseBatches ==
    << <<Msg(1, 1, 299999)>>, <<Msg(1, 2, 1), Msg(1, 3, 1)>> >>

\* C26: on the end-to-end case the batches committed so far are, at any
\* moment, the first ones of: the 299,999-cost message alone, then the two
\* 1-cost messages together; they all come from one worker, no batch reaches
\* the count threshold, and when every worker has returned exactly these two
\* batches have been flushed.
C26_EndToEndCase ==
    /\ \E w \in Workers :
          /\ IsPrefix(flushed[w], CaseBatches)
          /\ \A v \in Workers \ {w} : flushed[v] = <<>>
    /\ \A w \in Workers : \A i \in DOMAIN flushed[w] :
          Len(flushed[w][i]) < DESIRED_BATCH_SIZE
    /\ AllDone => \E w \in Workers : flushed[w] = CaseBatches

\* The three files were read, every worker has returned and one of them
\* flushed the two batches.
C26_Witness ==
    /\ AllDone
    /\ yielded = EndToEndCase
    /\ file_queue = <<>>
    /\ \E w \in Workers : flushed[w] = CaseBatches

\* The batches one worker makes of a whole stream of messages: the loop of
\* process_file_worker run on the stream after the last file, each flush
\* succeeding.
RECURSIVE BatchAll(_, _)
BatchAll(buf, made) ==
    CHOOSE b \in { IF r.outcome = "flush" THEN BatchAll(r.buf, Append(made, r.bat))
                   ELSE made : r \in {RunLoop(buf, <<>>, 0, None)} } : TRUE

AllBatches == UNION {Range(flushed[w]) : w \in Workers}

MessageKeys(b) ==
    {Key(b.channel_id, b.json[n]) : n \in {m \in DOMAIN b.json : b.json[m].type = "message"}}

\* The texts that the message objects of batch b carry for key k.
TextsFor(b, k) ==
    {b.json[n].text : n \in {m \in DOMAIN b.json :
                                b.json[m].type = "message" /\ Key(b.channel_id, b.json[m]) = k}}

AllDelivered == \A i \in BatchIds : deliveries[i] >= 1

RecordsAgree ==
    \A k \in UNION {MessageKeys(batches[i]) : i \in BatchIds} :
        Cardinality(UNION {TextsFor(batches[i], k) : i \in BatchIds}) = 1

LeadingCommitted ==
    CHOOSE n \in 0..source_rows :
        /\ 1..n \subseteq dest
        /\ n < source_rows => (n + 1) \notin dest

\* C30: the job file always holds a state that a resume can read, its
\* current_offset is at most the number of leading source rows committed to
\* the destination, and a job that ran to its end, resumed or not, has copied
\* every source row.
C30_PersistedOffsetBehindCommit ==
    /\ jpc = "stopped" => job_file # Truncated
    /\ job_file # Truncated => job_file.current_offset <= LeadingCommitted
    /\ jpc # "resume_failed"
    /\ jpc = "done" => dest = 1..source_rows

(***************************************************************************)
(* add_message_embeddings: properties.                                     *)
(***************************************************************************)
TokensInRequest(request) ==
    SumSeq([i \in DOMAIN request |-> TokensInContent(request[i])])

\* C31: every request passed to embedder.embed_documents has a combined
\* token count strictly below MAX_TOKENS_PER_EMBEDDING_REQUEST, and the
\* embedder is not called when no message has non-empty content.
C31_RequestsBelowBudget ==
    /\ \A r \in DOMAIN embedder_calls :
          TokensInRequest(embedder_calls[r]) < MAX_TOKENS_PER_EMBEDDING_REQUEST
    /\ (\A k \in DOMAIN messages : messages[k].content = NoContent)
          => embedder_calls = <<>>

\* The positions of the messages that have content, in input order.
RECURSIVE WithContent(_, _)
WithContent(msgs, k) ==
    IF k > Len(msgs) THEN <<>>
    ELSE IF msgs[k].content = NoContent THEN WithContent(msgs, k + 1)
    ELSE <<k>> \o WithContent(msgs, k + 1)

\* The place in the embedder's calls of the string at position p of their
\* concatenation: <<call, position in the call>>.
RECURSIVE PlaceOf(_, _, _)
PlaceOf(calls, r, p) ==
    IF p <= Len(calls[r]) THEN <<r, p>> ELSE PlaceOf(calls, r + 1, p - Len(calls[r]))

\* C37: when add_message_embeddings has returned without an embedder
\* failure, the contents sent to the embedder, over all requests in order,
\* are exactly the contents of the messages that have content, in input
\* order (each sent once); each such message carries the embedding returned
\* for its own string at its own place in its request; and a message
\* without content has no embedding.
C37_EmbeddingOfOwnContent ==
    epc = "returned" =>
        LET sent == WithContent(messages, 1)
        IN  /\ Flatten(embedder_calls) = [p \in DOMAIN sent |-> messages[sent[p]].content]
            /\ \A p \in DOMAIN sent :
                  LET place == PlaceOf(embedder_calls, 1, p)
                  IN  messages[sent[p]].embedding =
                          Embedding(place[1], place[2], messages[sent[p]].content)
            /\ \A k \in DOMAIN messages :
                  messages[k].content = NoContent => messages[k].embedding = NoEmbedding

\* add_message_embeddings has returned after two requests, the second one
\* holding the content of the message that follows one without content.
C37_Witness ==
    /\ epc = "returned"
    /\ Len(embedder_calls) = 2
    /\ Len(messages) = 3
    /\ messages[2].content = NoContent
    /\ messages[3].embedding = Embedding(2, 1, messages[3].content)

(***************************************************************************)
(* Ingest service: properties.                                             *)
(***************************************************************************)
\* An event whose routing or recording transaction is in flight.
InFlight(e) == hpc[e] \in {"event_router", "insert_event"}

\* C32: when the process has exited on SIGINT or SIGTERM, every database
\* transaction that was in flight at the signal has finished: no call of
\* event_handler was stopped inside event_router or insert_event.
C32_InFlightTransactionsFinish ==
    exited => \A e \in Events : ~InFlight(e)

\* The process is gone: no event is admitted or handled after the signal.
NoAdmissionAfterSignal == [][exited => hpc' = hpc]_vars

C36_OneProcessRunsTheJob ==
    autocommit =>
        /\ Cardinality({p \in JobProcs : lpc[p] = "users_list"}) <= 1
        /\ \A p \in JobProcs : lpc[p] = "users_list" => job_lock = p

\* The same for a pool whose connections are not in autocommit mode.
OneProcessRunsTheJobInTransaction ==
    ~autocommit =>
        /\ Cardinality({p \in JobProcs : lpc[p] = "users_list"}) <= 1
        /\ \A p \in JobProcs : lpc[p] = "users_list" => job_lock = p

(***************************************************************************)
(* The import worker pool of the service package: properties.              *)
(***************************************************************************)
\* C39: an exception raised while reading, parsing or batching one file
\* does not terminate the worker that took the file, nor the other workers
\* of the TaskGroup: no worker's task fails and none is cancelled.
C39_FileErrorIsolated ==
    \A w \in Workers : pc[w] \notin {"raised", "cancelled"}

\* No worker of the pool is running any more.
ServicePoolEnded == \A w \in Workers : pc[w] \in {"done", "raised", "cancelled"}

PassedListsBelowBudgetOnly ==
    \A w \in Workers : \A i \in DOMAIN flushed[w] :
        Tokens(flushed[w][i]) < MAX_TOKENS_PER_EMBEDDING_REQUEST

\* No list of messages is ever passed to insert_messages.
NothingIsPassed == \A w \in Workers : flushed[w] = <<>>

(***************************************************************************)
(* Pure functions: properties.                                             *)
(***************************************************************************)
\* The position of the first file of a listing that is numbered 999 (its
\* name has the form and its number is 999), or one past the end.
First999(ps) ==
    IF \E i \in DOMAIN ps : MatchesPattern(ps[i]) /\ sql_file_number(ps[i]) = 999
    THEN CHOOSE i \in DOMAIN ps :
            /\ MatchesPattern(ps[i]) /\ sql_file_number(ps[i]) = 999
            /\ \A j \in 1..(i - 1) :
                  ~(MatchesPattern(ps[j]) /\ sql_file_number(ps[j]) = 999)
    ELSE Len(ps) + 1

\* The files before the first one numbered 999 whose name has not the form
\* or whose number is not their position counted from 0.
Offending(ps) ==
    { i \in 1..(First999(ps) - 1) :
         ~MatchesPattern(ps[i]) \/ sql_file_number(ps[i]) # i - 1 }

\* C35: check_sql_file_order returns if and only if every file before the
\* first file numbered 999 has a name of the form NNN-lowercase-name.sql
\* and those files are numbered 0, 1, 2, ... in order; otherwise it raises
\* ValueError at the first offending file; the first file numbered 999 and
\* the files after it play no part.
C35_ContiguousUntil999 ==
    (fn = "check_sql_file_order" /\ result # Pending) =>
        IF Offending(arg) = {}
        THEN result = Returned(0)
        ELSE result = Raised("ValueError",
                             CHOOSE i \in Offending(arg) : \A j \in Offending(arg) : i <= j)

\* A listing is accepted whose files 000 and 001 are followed by file 999
\* and by a file whose name has not the form.
C35_Witness ==
    /\ fn = "check_sql_file_order"
    /\ result = Returned(0)
    /\ Len(arg) = 4
    /\ First999(arg) = 3
    /\ ~MatchesPattern(arg[4])

\* Value r is value a with the null characters taken out of every string,
\* at every depth: same kind, same length, same keys in the same order.
RECURSIVE SameButNulls(_, _)
SameButNulls(a, r) ==
    /\ r.t = a.t
    /\ Len(r.items) = Len(a.items)
    /\ CASE a.t = "str" ->
              /\ r.s = SelectSeq(a.s, LAMBDA c : c # NUL)
              /\ r.items = <<>>
         [] a.t = "list" ->
              /\ r.s = <<>>
              /\ \A i \in DOMAIN a.items : SameButNulls(a.items[i], r.items[i])
         [] a.t = "dict" ->
              /\ r.s = <<>>
              /\ \A i \in DOMAIN a.items :
                    /\ r.items[i].key = a.items[i].key
                    /\ SameButNulls(a.items[i].value, r.items[i].value)
         [] OTHER -> r = a

\* C33: remove_null_bytes(obj) with escaped=False returns a value of the
\* same shape, keys and element order as obj, in which every string at
\* every depth is the original without its null characters (escaped text
\* \u0000 is kept) and every other scalar is unchanged.
C33_NullBytesRemovedAtEveryDepth ==
    (fn = "remove_null_bytes" /\ result # Pending /\ ~arg.escaped) =>
        /\ result.kind = "returned"
        /\ SameButNulls(arg.obj, result.value)

\* The call has returned for a list in a dict in a list whose string held
\* null characters and escaped text.
C33_Witness ==
    /\ fn = "remove_null_bytes"
    /\ result # Pending
    /\ ~arg.escaped
    /\ arg.obj = List(<<Dict(<<Pair(<<"k">>,
                      List(<<Str(<<NUL>> \o EscapedNul \o <<NUL>>)>>))>>)>>)
    /\ result.value = List(<<Dict(<<Pair(<<"k">>, List(<<Str(EscapedNul)>>))>>)>>)

\* s is a calendar date written YYYY-MM-DD: four, two and two digits
\* joined by hyphens, naming a day that exists.
WrittenDate(s) ==
    /\ Len(s) = 10
    /\ s[5] = "-" /\ s[8] = "-"
    /\ AllDigits(SubSeq(s, 1, 4)) /\ AllDigits(SubSeq(s, 6, 7)) /\ AllDigits(SubSeq(s, 9, 10))
    /\ IsDate(IntOf(SubSeq(s, 1, 4)), IntOf(SubSeq(s, 6, 7)), IntOf(SubSeq(s, 9, 10)))

\* s is a non-negative integer immediately followed by D, W, M or Y in
\* either case, and nothing else.
WrittenDuration(s) ==
    /\ Len(s) >= 2
    /\ AllDigits(SubSeq(s, 1, Len(s) - 1))
    /\ s[Len(s)] \in UnitChars

\* C34: parse_since_flag raises ValueError ("Invalid --since format") for
\* every input that is neither a calendar date written YYYY-MM-DD nor a
\* non-negative integer followed by D, W, M or Y, and returns exactly the
\* date for an input that is a date written YYYY-MM-DD.
C34_InvalidSinceRejected ==
    (fn = "parse_since_flag" /\ result # Pending) =>
        /\ (~WrittenDate(arg) /\ ~WrittenDuration(arg)) => result = InvalidSinceFormat
        /\ WrittenDate(arg) =>
              result = Returned(Date(IntOf(SubSeq(arg, 1, 4)), IntOf(SubSeq(arg, 6, 7)),
                                     IntOf(SubSeq(arg, 9, 10))))

\* The inputs that are accepted although they have neither form.
AcceptedOutsideTheForms ==
    (fn = "parse_since_flag" /\ result # Pending /\ result # InvalidSinceFormat
        /\ ~WrittenDate(arg) /\ ~WrittenDuration(arg))
    => \/ /\ strptime(arg) # <<>>
          /\ Len(arg) < 10 \/ \E i \in DOMAIN arg : arg[i] = " "
       \/ /\ arg[Len(arg)] = "\n"
          /\ WrittenDuration(SubSeq(arg, 1, Len(arg) - 1))

\* The parts of the claim that hold: a date written YYYY-MM-DD gives that
\* date, and the malformed strings of the tests are rejected.
WrittenDateParsed ==
    (fn = "parse_since_flag" /\ result # Pending /\ WrittenDate(arg)) =>
        result = Returned(Date(IntOf(SubSeq(arg, 1, 4)), IntOf(SubSeq(arg, 6, 7)),
                               IntOf(SubSeq(arg, 9, 10))))

====
